---- MODULE Spec2Model ----
(***************************************************************************)
(* Webhook delivery queue (WebhookPlugin) and the database service it      *)
(* writes through (DatabaseService), modelled as one state machine.        *)
(*                                                                         *)
(* One TLA+ step is one run-to-completion slice of the single JavaScript   *)
(* thread: a public call up to its first await, the continuation of an     *)
(* awaited fetch, a timer callback, an IndexedDB completion callback.      *)
(***************************************************************************)
EXTENDS Integers, Sequences, FiniteSets, TLC

(***************************************************************************)
(* Bounds of the model                                                     *)
(***************************************************************************)
MaxOps == 3        \* calls made to the plugin, page reloads included
MaxFailures == 2   \* fetch calls that fail plus store writes that throw
MaxRetryCount == 20 \* largest retry_count of a webhook followed to exhaustion

(***************************************************************************)
(* Program constants                                                       *)
(***************************************************************************)
retryDelay == 5000

(***************************************************************************)
(* Input domains                                                           *)
(***************************************************************************)
EventTypes == {"user.registered", "order.created"}
RetryCounts == {0, 2}
Url == "https://example.test/hook"
WebhookData ==
  {[url |-> Url, events |-> {"user.registered"}, retry_count |-> 2],
   [url |-> Url, events |-> {"*"}, retry_count |-> 0]}
Payloads == {"p1"}                  \* payload objects the caller holds
PayloadValues == {"u1+undef", "u2"} \* what a payload object may contain
Null == "NULL"                      \* null, a value no string input takes
SignedWebhookData ==
  {[url |-> Url, events |-> {"*"}, retry_count |-> 2, secret |-> "k"],
   [url |-> Url, events |-> {"*"}, retry_count |-> 0, secret |-> ""],
   [url |-> Url, events |-> {"*"}, retry_count |-> 0,
    headers |-> ("Content-Type" :> "text/plain")
                  @@ ("X-Event-Type" :> "custom")
                  @@ ("X-Webhook-Signature" :> "forged")]}
\* registrations with a url, an empty url, url: null and no url at all
ConfigWebhookData ==
  {[url |-> Url, events |-> {"*"}, retry_count |-> 0],
   [url |-> "", events |-> {"*"}, retry_count |-> 0],
   [url |-> Null, events |-> {"*"}, retry_count |-> 0],
   [events |-> {"*"}, retry_count |-> 0]}
Outcomes == {"ok", "http", "error", "timeout"}

VARIABLES
  webhooks,     \* table webhooks: sequence of rows, row i has id i
  deliveries,   \* table webhook_deliveries: sequence of rows, row i has id i
  idb,          \* the database image stored in IndexedDB
  saves,        \* saveToIndexedDB calls whose transaction has not completed
  queue,        \* WebhookPlugin.queue
  processing,   \* WebhookPlugin.processing
  inflight,     \* sendWebhook calls suspended at their await of fetch
  timers,       \* pending setTimeout callbacks of sendWebhook
  intervals,    \* number of setInterval tickers started by startQueueProcessor
  heap,         \* the content of the payload objects the caller holds
  nOps,         \* history: number of calls made to the plugin, and reloads
  nFailures,    \* history: number of failed fetch calls and thrown writes
  pushLog,      \* history: one entry per attempt pushed by trigger, with
                \* the webhook row it snapshotted and whether init had run
  lastOp        \* history: the step taken last
                \* (items carry lin, the position in pushLog of the
                \* attempt they continue, 0 for test and retryDelivery)

VARIABLES
  kv_settings,      \* table kv_settings: the rows of the (category, key)
                    \* the calls below use, at most one (UNIQUE)
  cache,            \* SettingsPlugin.cache[cacheKey]: <<>> when undefined
  lastCacheUpdate,  \* SettingsPlugin.lastCacheUpdate[cacheKey]
  now,              \* Date.now(), in milliseconds
  lastSet           \* history: the value of the last settings.set, <<>>
                    \* after a delete and before the first set

VARIABLES
  users,                 \* table users: sequence of rows, row i has id i
  sessions,              \* table sessions: row i has id (token) i
  localStorage,          \* localStorage item session_token: <<>> when absent
  currentUser,           \* AuthPlugin.currentUser: <<>> when null
  currentSession,        \* AuthPlugin.currentSession: <<>> when null
  sessionCheckInterval,  \* whether the ticker of startSessionCheck runs
  logins                 \* AuthPlugin.login calls suspended at their await
                         \* of verifyPassword

VARIABLES
  api_endpoints,  \* table api_endpoints: sequence of rows, row i has id i
  handlers,       \* APIPlugin.handlers: endpoint by <<METHOD, route>>
  middleware,     \* APIPlugin.middleware
  rateLimits,     \* APIPlugin.rateLimits: timestamps by <<METHOD, route>>
  admitted        \* history: key and time of every request that passed
                  \* checkRateLimit

VARIABLES
  dbInitialized,  \* DatabaseService.initialized, as PWAComponents.init
                  \* finds it
  initialized,    \* PWAComponents.initialized
  inits,          \* PWAComponents.init calls suspended at their await of
                  \* DatabaseService.init, each with its options
  waiters,        \* whenReady promises waiting for pwa-components-ready
  shutdowns,      \* PWAComponents.shutdown calls suspended at their await
  resolved        \* history: whenReady promises resolved so far

VARIABLES
  currentLevel,    \* LoggingPlugin.currentLevel
  consoleEnabled,  \* LoggingPlugin.consoleEnabled
  dbEnabled,       \* LoggingPlugin.dbEnabled
  memoryLogs,      \* LoggingPlugin.memoryLogs
  logs,            \* table logs: sequence of rows
  logEvents,       \* log-entry events dispatched on window so far
  captures         \* wrappers captureConsoleMethods has put around each
                   \* console method, 0 for the native console

VARIABLES
  content_pages,   \* table content_pages: sequence of rows, row i has id i
  routes,          \* DynamicPagePlugin.routes: route -> page
  unpublished      \* history: the routes unpublishPage was called for and
                   \* neither publishPage nor a savePage with published = 1
                   \* since

VARIABLES
  sync_queue,      \* table sync_queue: sequence of rows, row i has id i
  syncHistory      \* history: for each row, whether markSyncCompleted was
                   \* applied to it and how often markSyncFailed was

webhookVars == <<webhooks, deliveries, idb, saves, queue, processing,
                 inflight, timers, intervals, heap, nOps, nFailures, pushLog>>
settingsVars == <<kv_settings, cache, lastCacheUpdate, lastSet>>
authVars == <<users, sessions, localStorage, currentUser, currentSession,
              sessionCheckInterval, logins>>
apiVars == <<api_endpoints, handlers, middleware, rateLimits, admitted>>
pwaVars == <<dbInitialized, initialized, inits, waiters, shutdowns,
             resolved>>
loggingVars == <<currentLevel, consoleEnabled, dbEnabled, memoryLogs, logs,
                 logEvents, captures>>
pagesVars == <<content_pages, routes, unpublished>>
syncVars == <<sync_queue, syncHistory>>
extVars == <<loggingVars, pagesVars, syncVars>>
plugins == <<settingsVars, authVars, apiVars, pwaVars, extVars, now>>
vars == <<webhookVars, plugins, lastOp>>

(***************************************************************************)
(* JSON.stringify / JSON.parse on payloads.  A payload with a property     *)
(* whose value is undefined serialises like the payload without it.        *)
(***************************************************************************)
JsonStringify(p) == IF p = "u1+undef" THEN "{\"id\":\"u1\"}"
                    ELSE IF p = "u1" THEN "{\"id\":\"u1\"}"
                    ELSE IF p = "u2" THEN "{\"id\":\"u2\"}"
                    ELSE "{\"test\":true}"

JsonParse(s) == IF s = "{\"id\":\"u1\"}" THEN "u1"
                ELSE IF s = "{\"id\":\"u2\"}" THEN "u2"
                ELSE "test"

\* the content of a payload: of the object the caller holds, or of an
\* object nobody else refers to
Deref(payload) == IF payload \in DOMAIN heap THEN heap[payload] ELSE payload

TestPayload == "test"

(***************************************************************************)
(* DatabaseService                                                         *)
(***************************************************************************)
Image(w, d) == [webhooks |-> w, deliveries |-> d]

\* saveToIndexedDB: exports the database now, stores it when the
\* IndexedDB open request and transaction complete later.
saveToIndexedDB(sv, w, d) == Append(sv, Image(w, d))

\* createWebhook throws: the statement cannot bind url: undefined, and
\* the column url is NOT NULL
createWebhookThrows(webhookData) ==
  \/ "url" \notin DOMAIN webhookData
  \/ webhookData.url = Null

\* createWebhook: the row inserted for webhookData
createWebhook(id, webhookData) ==
  [id |-> id, active |-> 1, retry_count |-> webhookData.retry_count,
   url |-> webhookData.url,
   events |-> webhookData.events,
   headers |-> IF "headers" \in DOMAIN webhookData
                 THEN webhookData.headers ELSE <<>>,
   secret |-> IF "secret" \in DOMAIN webhookData
                THEN webhookData.secret ELSE Null]

\* getWebhooksForEvent without the filter on active
getWebhooksForEvent_AnyActive(eventType) ==
  SelectSeq(webhooks, LAMBDA hook:
      eventType \in hook.events \/ "*" \in hook.events)

\* getWebhooksForEvent: active rows whose events contain eventType or '*',
\* in table order
getWebhooksForEvent(eventType) ==
  SelectSeq(webhooks, LAMBDA hook:
      hook.active = 1 /\ (eventType \in hook.events \/ "*" \in hook.events))

\* INSERT OR REPLACE on (webhook_id, event_type, retry_count)
Upsert(d, row) ==
  LET same(old) == /\ old.webhook_id = row.webhook_id
                   /\ old.event_type = row.event_type
                   /\ old.retry_count = row.retry_count
  IN IF \E i \in 1..Len(d) : same(d[i])
       THEN [i \in 1..Len(d) |-> IF same(d[i]) THEN row ELSE d[i]]
       ELSE Append(d, row)

InsertDeliveries_Upsert(d, rows) ==
  IF Len(rows) = 0 THEN d
  ELSE IF Len(rows) = 1 THEN Upsert(d, rows[1])
  ELSE Upsert(Upsert(d, rows[1]), rows[2])

\* INSERT INTO webhook_deliveries, once per row: the table afterwards
InsertDeliveries(d, rows) == d \o rows

\* logWebhookDelivery: the row inserted for one call
logWebhookDelivery(item, status, success, error) ==
  [webhook_id |-> item.webhook.id,
   event_type |-> item.eventType,
   payload |-> JsonStringify(Deref(item.payload)),
   response_status |-> status,
   success |-> IF success THEN 1 ELSE 0,
   retry_count |-> item.retries,
   error_message |-> error,
   lin |-> item.lin]

\* SUM(CASE WHEN success = v THEN 1 ELSE 0 END): <<>> (NULL) over no rows
SumCase(rows, v) ==
  IF Len(rows) = 0 THEN <<>>
  ELSE <<Len(SelectSeq(rows, LAMBDA d : d.success = v))>>

\* x || 0 for a column that is NULL or a number
OrZero(x) == IF x = <<>> THEN 0 ELSE x[1]

\* the statistics taken over all rows, whatever webhookId is
getStatistics_Unfiltered(webhookId) ==
  LET total == Len(deliveries)
      successful == SumCase(deliveries, 1)
      failed == SumCase(deliveries, 0)
  IN [total |-> total,
      successful |-> OrZero(successful),
      failed |-> OrZero(failed),
      successRate |-> IF total > 0
                        THEN <<successful[1] * 100, total>> ELSE <<0, 1>>]

\* WebhookPlugin.getStatistics; webhookId 0 is the default null, and
\* successRate is the fraction <<numerator, denominator>>
getStatistics(webhookId) ==
  LET rows == IF webhookId # 0
                THEN SelectSeq(deliveries,
                               LAMBDA d : d.webhook_id = webhookId)
                ELSE deliveries
      total == Len(rows)
      successful == SumCase(rows, 1)
      failed == SumCase(rows, 0)
  IN [total |-> total,
      successful |-> OrZero(successful),
      failed |-> OrZero(failed),
      successRate |-> IF total > 0
                        THEN <<successful[1] * 100, total>> ELSE <<0, 1>>]

(***************************************************************************)
(* WebhookPlugin.sendWebhook, from the return of fetch to its end.         *)
(* f1: the logWebhookDelivery call of the try block throws.                *)
(* f2: the logWebhookDelivery call of the catch block throws.              *)
(***************************************************************************)
ResponseStatus(outcome) == IF outcome = "ok" THEN 200 ELSE 500

\* error.message, up to its text
ErrorMessage(outcome, f1) == "error"

HasResponse(outcome) == outcome \in {"ok", "http"}

\* the catch block runs
EntersCatch(outcome, f1) ==
  \/ ~HasResponse(outcome)
  \/ f1
  \/ outcome = "http"

\* rows inserted by one sendWebhook call
SendRows(s, outcome, f1, f2) ==
  (IF HasResponse(outcome) /\ ~f1
     THEN <<logWebhookDelivery(s.item, ResponseStatus(outcome),
                               outcome = "ok", "none")>>
     ELSE <<>>)
  \o
  (IF EntersCatch(outcome, f1) /\ ~f2
     THEN <<logWebhookDelivery(s.item, 0, FALSE,
                               ErrorMessage(outcome, f1))>>
     ELSE <<>>)

\* the promise of sendWebhook is rejected
SendRejects(outcome, f1, f2) == EntersCatch(outcome, f1) /\ f2

\* the retry condition of the catch block
RetryCondition(item) == item.retries < item.webhook.retry_count

\* setTimeout is called
SchedulesRetry(s, outcome, f1, f2) ==
  EntersCatch(outcome, f1) /\ ~f2 /\ RetryCondition(s.item)

\* v * 2 as a 32-bit two's complement integer
Double32(v) ==
  IF v >= 2 ^ 30 THEN ((v - 2 ^ 30) * 2 - 2 ^ 30) - 2 ^ 30
  ELSE IF v < -(2 ^ 30) THEN ((v + 2 ^ 30) * 2 + 2 ^ 30) + 2 ^ 30
  ELSE v * 2

RECURSIVE Shl32(_, _)
\* v * 2^r as a 32-bit two's complement integer
Shl32(v, r) == IF r = 0 THEN v ELSE Shl32(Double32(v), r - 1)

\* setTimeout(callback, base * Math.pow(2, r)): the timeout argument is
\* converted to a 32-bit signed integer, a negative timeout counts as 0.
\* The result is the time in ms the timer waits at least.
setTimeout(base, r) ==
  LET timeout == Shl32(base, r) IN IF timeout < 0 THEN 0 ELSE timeout

RetryTimer(s) ==
  [item |-> [s.item EXCEPT !.retries = @ + 1],
   delay |-> setTimeout(retryDelay, s.item.retries),
   sid |-> s.sid]

(***************************************************************************)
(* WebhookPlugin.processQueue, as a transformer of                         *)
(* [queue, processing, inflight, timers]                                   *)
(***************************************************************************)
\* fetch accepts the url
ValidUrl(url) == url = Url

\* { ...a, ...b }
Spread(a, b) ==
  [k \in DOMAIN a \cup DOMAIN b |-> IF k \in DOMAIN b THEN b[k] ELSE a[k]]

\* if (webhook.secret)
HasSecret(webhook) == webhook.secret \notin {Null, ""}

\* the hex HMAC-SHA-256 of data under secret, up to collisions
Hmac(data, secret) == <<"hmac", secret, data>>

\* sendWebhook(item) from its call to its first await: of generateSignature,
\* which has serialised the payload by then, when the webhook has a secret;
\* otherwise of fetch, called with the headers and the serialised payload
Send(item, origin, sid) ==
  LET headers == Spread("Content-Type" :> "application/json",
                        item.webhook.headers)
  IN IF HasSecret(item.webhook)
       THEN [item |-> item, origin |-> origin, sid |-> sid,
             phase |-> "sign",
             data |-> JsonStringify(Deref(item.payload)),
             headers |-> headers,
             body |-> ""]
       ELSE [item |-> item, origin |-> origin, sid |-> sid,
             phase |-> "fetch",
             data |-> "",
             headers |-> Spread(headers, "X-Event-Type" :> item.eventType),
             body |-> JsonStringify(Deref(item.payload))]

\* sendWebhook from the return of generateSignature to the await of fetch
Signed(s) ==
  [s EXCEPT
     !.phase = "fetch",
     !.headers = Spread(Spread(@, "X-Webhook-Signature"
                                    :> Hmac(s.data, s.item.webhook.secret)),
                        "X-Event-Type" :> s.item.eventType),
     !.body = JsonStringify(Deref(s.item.payload))]

\* identity of a sendWebhook call: the least number no suspended call or
\* pending timer carries
FreeSid(infl, tm) ==
  CHOOSE n \in 1..(Cardinality(infl) + Cardinality(tm) + 1) :
    /\ \A s \in infl \cup tm : s.sid # n
    /\ \A m \in 1..(n - 1) : \E s \in infl \cup tm : s.sid = m

\* the loop with processing reset in every iteration
DrainLoop_ClearsFlag(st) ==
  IF Len(st.queue) > 0
    THEN [queue |-> Tail(st.queue),
          processing |-> FALSE,
          inflight |-> st.inflight \cup
                         {Send(Head(st.queue), "drain",
                               FreeSid(st.inflight, st.timers))},
          timers |-> st.timers]
    ELSE [st EXCEPT !.processing = FALSE]

\* one iteration of the while loop: shift an item and call sendWebhook,
\* which suspends at its first await; or leave the loop
DrainLoop(st) ==
  IF Len(st.queue) > 0
    THEN [queue |-> Tail(st.queue),
          processing |-> st.processing,
          inflight |-> st.inflight \cup
                         {Send(Head(st.queue), "drain",
                               FreeSid(st.inflight, st.timers))},
          timers |-> st.timers]
    ELSE [st EXCEPT !.processing = FALSE]

\* processQueue with the assignment processing = true left out
processQueue_FlagNotSet(st) ==
  IF st.processing \/ Len(st.queue) = 0 THEN st ELSE DrainLoop(st)

processQueue(st) ==
  IF st.processing \/ Len(st.queue) = 0
    THEN st
    ELSE DrainLoop([st EXCEPT !.processing = TRUE])

St == [queue |-> queue, processing |-> processing, inflight |-> inflight,
       timers |-> timers]

SetSt(st) ==
  /\ queue' = st.queue
  /\ processing' = st.processing
  /\ inflight' = st.inflight
  /\ timers' = st.timers

(***************************************************************************)
(* SettingsPlugin and the settings API of DatabaseService.  A JavaScript   *)
(* value is a record of its type and its text; a column of kv_settings     *)
(* holds the text alone.                                                   *)
(***************************************************************************)
cacheTimeout == 60000
JsNull == [t |-> "null", s |-> "null"]
SettingValues == {[t |-> "number", s |-> "5"],
                  [t |-> "string", s |-> "hello"],
                  [t |-> "boolean", s |-> "true"]}

detectType(value) ==
  CASE value.t = "boolean" -> "boolean"
    [] value.t = "number" -> "int"
    [] value.t = "null" -> "json"
    [] OTHER -> "string"

\* String(value), and JSON.stringify(value) for a value of typeof 'object'
valueStr(value) == value.s

coerceSettingValue(value, type) ==
  CASE type = "boolean" ->
         [t |-> "boolean",
          s |-> IF value \in {"true", "1"} THEN "true" ELSE "false"]
    [] type = "int" -> [t |-> "number", s |-> value]
    [] type = "json" ->
         IF value = "null" THEN JsNull ELSE [t |-> "string", s |-> value]
    [] OTHER -> [t |-> "string", s |-> value]

\* SELECT ... WHERE category = ? AND key = ? AND active = 1
getSetting(rows, defaultValue) ==
  LET result == SelectSeq(rows, LAMBDA r : r.active = 1)
  IN IF result = <<>> THEN defaultValue
     ELSE coerceSettingValue(result[1].value, result[1].value_type)

\* INSERT ... VALUES (..., 1) ON CONFLICT(category, key) DO UPDATE SET
\* value, value_type, modified_date
setSetting(rows, value, valueType) ==
  IF rows = <<>>
    THEN <<[value |-> valueStr(value), value_type |-> valueType,
            active |-> 1]>>
    ELSE <<[rows[1] EXCEPT !.value = valueStr(value),
                           !.value_type = valueType]>>

\* cache[cacheKey] !== undefined && lastCacheUpdate[cacheKey] &&
\* (now - lastCacheUpdate[cacheKey]) < cacheTimeout
CacheHit(c, last, t) ==
  /\ c # <<>>
  /\ last # <<>>
  /\ last[1] # 0
  /\ t - last[1] < cacheTimeout

(***************************************************************************)
(* AuthPlugin and the user and session API of DatabaseService.  A          *)
(* timestamp text is a record of its date, the character after the date    *)
(* and the time of day in milliseconds; SQLite compares such texts         *)
(* character by character.                                                 *)
(***************************************************************************)
expiryHours == 24
MsPerDay == 24 * 60 * 60 * 1000
LoginInputs == {<<"admin", "admin123">>, <<"alice", "pw">>,
                <<"alice", "wrong">>}
UserData == {[username |-> "alice", password |-> "pw"]}
Passwords == {"pw", "new"}

\* Date.prototype.toISOString: YYYY-MM-DDTHH:MM:SS.sssZ
toISOString(t) ==
  [day |-> t \div MsPerDay, sep |-> "T", ms |-> t % MsPerDay]
\* datetime('now') of SQLite: YYYY-MM-DD HH:MM:SS
datetime(t) ==
  [day |-> t \div MsPerDay, sep |-> " ",
   ms |-> ((t % MsPerDay) \div 1000) * 1000]
CharCode(c) == IF c = " " THEN 32 ELSE 84
\* a > b for two TEXT values
TextGreater(a, b) ==
  \/ a.day > b.day
  \/ a.day = b.day /\ CharCode(a.sep) > CharCode(b.sep)
  \/ a.day = b.day /\ a.sep = b.sep /\ a.ms > b.ms

\* SHA-256 of the password, in hexadecimal
hashPassword(password) == <<"sha256", password>>
verifyPassword(password, hash) == hashPassword(password) = hash

\* the seed row of schema.sql: password_hash is a bcrypt text of 'admin123'
SeedUsers ==
  <<[id |-> 1, username |-> "admin",
     password_hash |-> <<"bcrypt", "admin123">>, role |-> "admin",
     active |-> 1]>>

createUser(u, userData, password_hash) ==
  Append(u, [id |-> Len(u) + 1, username |-> userData.username,
             password_hash |-> password_hash, role |-> "user",
             active |-> 1])
getUserByUsername(u, username) ==
  SelectSeq(u, LAMBDA r : r.username = username /\ r.active = 1)
getUserById(u, id) ==
  SelectSeq(u, LAMBDA r : r.id = id /\ r.active = 1)
sanitizeUser(user) ==
  [f \in (DOMAIN user) \ {"password_hash"} |-> user[f]]

createSession(s, userId, t) ==
  Append(s, [id |-> Len(s) + 1, user_id |-> userId,
             expiry_date |-> toISOString(t + expiryHours * 60 * 60 * 1000),
             active |-> 1])
\* SELECT * FROM sessions WHERE id = ? AND active = 1
\*   AND expiry_date > datetime('now')
getSession(s, sessionToken, t) ==
  SelectSeq(s, LAMBDA r : /\ r.id = sessionToken
                          /\ r.active = 1
                          /\ TextGreater(r.expiry_date, datetime(t)))
invalidateSession_None(s, sessionToken) == s
invalidateSession(s, sessionToken) ==
  [i \in DOMAIN s |-> IF s[i].id = sessionToken
                        THEN [s[i] EXCEPT !.active = 0] ELSE s[i]]
isAuthenticated(user, session) == user # <<>> /\ session # <<>>

(***************************************************************************)
(* APIPlugin.  An endpoint key `${METHOD}:${route}` is the pair            *)
(* <<METHOD, route>>.  A handler or a middleware is named by what a call   *)
(* of it does; a request body and a schema are the sets of the fields      *)
(* they hold and require.                                                  *)
(***************************************************************************)
windowMs == 60000
Methods == {"GET", "post"}
Routes == {"/api/users"}
\* "ok" returns a response, "throws" throws an Error, "rejects" returns
\* Promise.reject()
Handlers == {"ok", "throws", "rejects"}
EndpointOptions ==
  {[authRequired |-> TRUE, rateLimit |-> 2, requestSchema |-> <<>>],
   [authRequired |-> FALSE, rateLimit |-> 1,
    requestSchema |-> <<[required |-> {"name"}]>>]}
\* "next" returns undefined, "false" returns false, "response" returns an
\* object with error set, "throws" throws an Error
Middlewares == {"next", "false", "response", "throws"}
ApiRequests == {[body |-> <<>>], [body |-> <<{"name"}>>],
                [body |-> <<{"other"}>>]}

toUpperCase(method) ==
  CASE method = "get" -> "GET"
    [] method = "post" -> "POST"
    [] OTHER -> method

Put(f, k, v) == [x \in DOMAIN f \cup {k} |-> IF x = k THEN v ELSE f[x]]
Delete(f, k) == [x \in DOMAIN f \ {k} |-> f[x]]

\* the INSERT of register fails: route is UNIQUE in api_endpoints
RouteTaken(rows, route) == \E i \in DOMAIN rows : rows[i].route = route

validateSchema(data, schema) == schema.required \subseteq data

\* checkRateLimit(key, limit), as the answer and the map it leaves
checkRateLimit_Unfiltered(limits, key, limit, t) ==
  LET requests == IF key \in DOMAIN limits THEN limits[key] ELSE <<>>
      filtered == requests
  IN IF Len(filtered) >= limit
       THEN [ok |-> FALSE, rateLimits |-> Put(limits, key, requests)]
       ELSE [ok |-> TRUE,
             rateLimits |-> Put(limits, key, Append(filtered, t))]
checkRateLimit(limits, key, limit, t) ==
  LET requests == IF key \in DOMAIN limits THEN limits[key] ELSE <<>>
      filtered == SelectSeq(requests, LAMBDA timestamp :
                                        t - timestamp < windowMs)
  IN IF Len(filtered) >= limit
       THEN [ok |-> FALSE, rateLimits |-> Put(limits, key, requests)]
       ELSE [ok |-> TRUE,
             rateLimits |-> Put(limits, key, Append(filtered, t))]

\* the loop over the middleware: "pass" when every one lets the request by
RECURSIVE RunMiddleware(_)
RunMiddleware(mw) ==
  IF mw = <<>> THEN "pass"
  ELSE IF Head(mw) = "next" THEN RunMiddleware(Tail(mw))
  ELSE Head(mw)

(***************************************************************************)
(* Initial state of the other plugins: their constructors, nothing called  *)
(* yet.  Time is counted from one millisecond before the page loads.       *)
(***************************************************************************)
InitPlugins ==
  /\ kv_settings = <<>>
  /\ cache = <<>>
  /\ lastCacheUpdate = <<>>
  /\ lastSet = <<>>
  /\ users = SeedUsers
  /\ sessions = <<>>
  /\ localStorage = <<>>
  /\ currentUser = <<>>
  /\ currentSession = <<>>
  /\ sessionCheckInterval = FALSE
  /\ logins = {}
  /\ api_endpoints = <<>>
  /\ handlers = <<>>
  /\ middleware = <<>>
  /\ rateLimits = <<>>
  /\ admitted = <<>>
  /\ dbInitialized = FALSE
  /\ initialized = FALSE
  /\ inits = <<>>
  /\ waiters = 0
  /\ shutdowns = 0
  /\ resolved = 0
  /\ currentLevel = "info"
  /\ consoleEnabled = TRUE
  /\ dbEnabled = TRUE
  /\ memoryLogs = <<>>
  /\ logs = <<>>
  /\ logEvents = 0
  /\ captures = 0
  /\ content_pages = <<>>
  /\ routes = <<>>
  /\ unpublished = {}
  /\ sync_queue = <<>>
  /\ syncHistory = <<>>
  /\ now = 1

(***************************************************************************)
(* Initial state: constructor of WebhookPlugin, database created from the  *)
(* schema and saved                                                        *)
(***************************************************************************)
Init ==
  /\ webhooks = <<>>
  /\ deliveries = <<>>
  /\ idb = Image(<<>>, <<>>)
  /\ saves = <<>>
  /\ queue = <<>>
  /\ processing = FALSE
  /\ inflight = {}
  /\ timers = {}
  /\ intervals = 0
  /\ heap = [p \in Payloads |-> "u1+undef"]
  /\ nOps = 0
  /\ nFailures = 0
  /\ pushLog = <<>>
  /\ lastOp = [op |-> "new"]
  /\ InitPlugins

(***************************************************************************)
(* Operations                                                              *)
(***************************************************************************)
\* a call is made to the plugin
Call(op) ==
  /\ nOps < MaxOps
  /\ nOps' = nOps + 1
  /\ lastOp' = op

\* WebhookPlugin.init: startQueueProcessor
init ==
  /\ Call([op |-> "init"])
  /\ intervals' = intervals + 1
  /\ UNCHANGED <<heap, webhooks, deliveries, idb, saves, queue, processing,
                 inflight, timers, nFailures, pushLog>>
  /\ UNCHANGED plugins

\* WebhookPlugin.register
register(webhookData) ==
  /\ Call([op |-> "register", webhookData |-> webhookData,
           threw |-> createWebhookThrows(webhookData)])
  /\ IF createWebhookThrows(webhookData)
       THEN UNCHANGED <<webhooks, saves>>
       ELSE /\ webhooks' = Append(webhooks,
                   createWebhook(Len(webhooks) + 1, webhookData))
            /\ saves' = saveToIndexedDB(saves, webhooks', deliveries)
  /\ UNCHANGED <<heap, deliveries, idb, queue, processing, inflight, timers,
                 intervals, nFailures, pushLog>>
  /\ UNCHANGED plugins

\* WebhookPlugin.update of the retry_count column
update(webhookId, retry_count) ==
  /\ Call([op |-> "update"])
  /\ webhookId \in 1..Len(webhooks)
  /\ webhooks[webhookId].retry_count # retry_count
  /\ webhooks' = [webhooks EXCEPT ![webhookId].retry_count = retry_count]
  /\ saves' = saveToIndexedDB(saves, webhooks', deliveries)
  /\ UNCHANGED <<heap, deliveries, idb, queue, processing, inflight, timers,
                 intervals, nFailures, pushLog>>
  /\ UNCHANGED plugins

\* delete that also drops the waiting attempts and retries of the webhook
delete_CancelsRetries(webhookId) ==
  /\ Call([op |-> "delete"])
  /\ webhookId \in 1..Len(webhooks)
  /\ webhooks' = [webhooks EXCEPT ![webhookId].active = 0]
  /\ saves' = saveToIndexedDB(saves, webhooks', deliveries)
  /\ queue' = SelectSeq(queue, LAMBDA it : it.webhook.id # webhookId)
  /\ timers' = {t \in timers : t.item.webhook.id # webhookId}
  /\ UNCHANGED <<heap, deliveries, idb, processing, inflight,
                 intervals, nFailures, pushLog>>
  /\ UNCHANGED plugins

\* WebhookPlugin.delete
delete(webhookId) ==
  /\ Call([op |-> "delete"])
  /\ webhookId \in 1..Len(webhooks)
  /\ webhooks' = [webhooks EXCEPT ![webhookId].active = 0]
  /\ saves' = saveToIndexedDB(saves, webhooks', deliveries)
  /\ UNCHANGED <<heap, deliveries, idb, queue, processing, inflight, timers,
                 intervals, nFailures, pushLog>>
  /\ UNCHANGED plugins

\* the attempts pushed by trigger, in order
TriggerItems(eventType, payload) ==
  LET hooks == getWebhooksForEvent(eventType)
  IN [i \in 1..Len(hooks) |->
        [webhook |-> hooks[i], eventType |-> eventType, payload |-> payload,
         retries |-> 0, lin |-> Len(pushLog) + i]]

\* the promise of trigger when it returns, with processQueue() awaited:
\* pending while the pass this call started is running
triggerPromise_AwaitsPass(started, st) ==
  IF started /\ st.processing THEN "pending" ELSE "fulfilled"

\* the promise of trigger when it returns: processQueue() is called, not
\* awaited, and the async function runs to its end
triggerPromise(started, st) == "fulfilled"

\* WebhookPlugin.trigger
trigger(eventType, payload) ==
  LET items == TriggerItems(eventType, payload)
      pushed == [St EXCEPT !.queue = queue \o items]
      started == Len(items) > 0 /\ ~processing
      st == IF started THEN processQueue(pushed) ELSE pushed
  IN /\ Call([op |-> "trigger", eventType |-> eventType,
              promise |-> triggerPromise(started, st)])
     /\ IF Len(items) = 0
          THEN UNCHANGED <<queue, processing, inflight, timers>>
          ELSE SetSt(st)
     /\ pushLog' = pushLog \o
          [i \in 1..Len(items) |->
             [webhook_id |-> items[i].webhook.id,
              retry_count |-> items[i].webhook.retry_count,
              webhook |-> items[i].webhook,
              ticking |-> intervals > 0]]
     /\ UNCHANGED <<heap, webhooks, deliveries, idb, saves, intervals,
                    nFailures>>
     /\ UNCHANGED plugins

\* WebhookPlugin.test
test(webhookId, payload) ==
  /\ Call([op |-> "test"])
  /\ webhookId \in 1..Len(webhooks)
  /\ inflight' = inflight \cup
       {Send([webhook |-> webhooks[webhookId], eventType |-> "test",
              payload |-> payload, retries |-> 0, lin |-> 0],
             "test", FreeSid(inflight, timers))}
  /\ UNCHANGED <<heap, webhooks, deliveries, idb, saves, queue, processing,
                 timers, intervals, nFailures, pushLog>>
  /\ UNCHANGED plugins

\* WebhookPlugin.retryDelivery
retryDelivery(deliveryId) ==
  /\ Call([op |-> "retryDelivery"])
  /\ deliveryId \in 1..Len(deliveries)
  /\ LET delivery == deliveries[deliveryId]
     IN /\ delivery.webhook_id \in 1..Len(webhooks)
        /\ inflight' = inflight \cup
             {Send([webhook |-> webhooks[delivery.webhook_id],
                    eventType |-> delivery.event_type,
                    payload |-> JsonParse(delivery.payload),
                    retries |-> delivery.retry_count,
                    lin |-> 0],
                   "retry", FreeSid(inflight, timers))}
  /\ UNCHANGED <<heap, webhooks, deliveries, idb, saves, queue, processing,
                 timers, intervals, nFailures, pushLog>>
  /\ UNCHANGED plugins

\* the saveToIndexedDB calls made by DatabaseService.run while rows are
\* inserted one after the other
RunInserts(sv, d, rows) ==
  sv \o [i \in 1..Len(rows) |-> Image(webhooks, d \o SubSeq(rows, 1, i))]

\* the number of things that went wrong in one sendWebhook call
FailureCount(outcome, f1, f2) ==
  (IF outcome # "ok" THEN 1 ELSE 0)
    + (IF f1 THEN 1 ELSE 0) + (IF f2 THEN 1 ELSE 0)

\* WebhookPlugin.sendWebhook resumed by the outcome of fetch, and the part
\* of processQueue that runs when a send it awaited returns (the call that
\* returns is gone once the loop has made the next one)
sendWebhook(s, outcome, f1, f2) ==
  LET rows == SendRows(s, outcome, f1, f2)
      st0 == [St EXCEPT !.timers = IF SchedulesRetry(s, outcome, f1, f2)
                                     THEN timers \cup {RetryTimer(s)}
                                     ELSE timers]
      st1 == IF s.origin = "drain" /\ ~SendRejects(outcome, f1, f2)
               THEN DrainLoop(st0)
               ELSE st0
  IN /\ s \in inflight
     /\ s.phase = "fetch"
     /\ ~ValidUrl(s.item.webhook.url) => outcome = "error"
     /\ f1 => HasResponse(outcome)
     /\ f2 => EntersCatch(outcome, f1)
     /\ nFailures' = nFailures + FailureCount(outcome, f1, f2)
     /\ deliveries' = InsertDeliveries(deliveries, rows)
     /\ saves' = RunInserts(saves, deliveries, rows)
     /\ SetSt([st1 EXCEPT !.inflight = @ \ {s}])
     /\ lastOp' = [op |-> "sendWebhook", send |-> s, outcome |-> outcome,
                    faults |-> f1 \/ f2]
     /\ UNCHANGED <<heap, webhooks, idb, intervals, nOps, pushLog>>
     /\ UNCHANGED plugins

\* WebhookPlugin.generateSignature returns to the sendWebhook call awaiting it
generateSignature(s) ==
  /\ s \in inflight
  /\ s.phase = "sign"
  /\ inflight' = (inflight \ {s}) \cup {Signed(s)}
  /\ lastOp' = [op |-> "generateSignature"]
  /\ UNCHANGED <<webhooks, deliveries, idb, saves, queue, processing, timers,
                 intervals, heap, nOps, nFailures, pushLog>>
  /\ UNCHANGED plugins

\* the caller changes a payload object it passed to trigger
mutate(payload, value) ==
  /\ heap[payload] # value
  /\ heap' = [heap EXCEPT ![payload] = value]
  /\ lastOp' = [op |-> "mutate"]
  /\ UNCHANGED <<webhooks, deliveries, idb, saves, queue, processing, inflight,
                 timers, intervals, nOps, nFailures, pushLog>>
  /\ UNCHANGED plugins

\* sendWebhook while the budget of failures lasts
sendWebhookBounded(s, outcome, f1, f2) ==
  /\ nFailures + FailureCount(outcome, f1, f2) <= MaxFailures
  /\ sendWebhook(s, outcome, f1, f2)

\* the setTimeout callback with unshift in place of push
retryTimer_Unshift(t) ==
  /\ t \in timers
  /\ queue' = <<t.item>> \o queue
  /\ timers' = timers \ {t}
  /\ lastOp' = [op |-> "retryTimer"]
  /\ UNCHANGED <<heap, webhooks, deliveries, idb, saves, processing, inflight,
                 intervals, nOps, nFailures, pushLog>>
  /\ UNCHANGED plugins

\* the setTimeout callback of sendWebhook
retryTimer(t) ==
  /\ t \in timers
  /\ queue' = Append(queue, t.item)
  /\ timers' = timers \ {t}
  /\ lastOp' = [op |-> "retryTimer"]
  /\ UNCHANGED <<heap, webhooks, deliveries, idb, saves, processing, inflight,
                 intervals, nOps, nFailures, pushLog>>
  /\ UNCHANGED plugins

\* the setInterval callback of startQueueProcessor, when its condition holds
startQueueProcessor ==
  /\ intervals > 0
  /\ ~processing /\ Len(queue) > 0
  /\ SetSt(processQueue(St))
  /\ lastOp' = [op |-> "tick"]
  /\ UNCHANGED <<heap, webhooks, deliveries, idb, saves, intervals, nOps,
                 nFailures, pushLog>>
  /\ UNCHANGED plugins

\* the IndexedDB transaction of the oldest pending saveToIndexedDB completes
saveComplete ==
  /\ Len(saves) > 0
  /\ idb' = Head(saves)
  /\ saves' = Tail(saves)
  /\ lastOp' = [op |-> "saveComplete"]
  /\ UNCHANGED <<heap, webhooks, deliveries, queue, processing, inflight,
                 timers, intervals, nOps, nFailures, pushLog>>
  /\ UNCHANGED plugins

\* page reload followed by DatabaseService.init: the database is loaded
\* from IndexedDB, everything held in memory is gone
reload ==
  /\ Call([op |-> "reload"])
  /\ webhooks' = idb.webhooks
  /\ deliveries' = idb.deliveries
  /\ saves' = <<>>
  /\ queue' = <<>>
  /\ processing' = FALSE
  /\ inflight' = {}
  /\ timers' = {}
  /\ intervals' = 0
  /\ UNCHANGED <<heap, idb, nFailures, pushLog>>
  /\ UNCHANGED plugins

Next ==
  \/ init
  \/ \E webhookData \in WebhookData : register(webhookData)
  \/ \E webhookId \in 1..Len(webhooks), retry_count \in RetryCounts :
       update(webhookId, retry_count)
  \/ \E webhookId \in 1..Len(webhooks) : delete(webhookId)
  \/ \E eventType \in EventTypes, payload \in Payloads :
       trigger(eventType, payload)
  \/ \E webhookId \in 1..Len(webhooks) : test(webhookId, TestPayload)
  \/ \E deliveryId \in 1..Len(deliveries) : retryDelivery(deliveryId)
  \/ \E s \in inflight, outcome \in Outcomes, f1 \in BOOLEAN, f2 \in BOOLEAN :
       sendWebhookBounded(s, outcome, f1, f2)
  \/ \E t \in timers : retryTimer(t)
  \/ startQueueProcessor

Spec == Init /\ [][Next]_vars

\* every fetch settles, every timer fires, the interval keeps ticking
Fairness ==
  /\ WF_vars(\E s \in inflight, outcome \in Outcomes,
                 f1 \in BOOLEAN, f2 \in BOOLEAN :
                sendWebhookBounded(s, outcome, f1, f2))
  /\ WF_vars(\E t \in timers : retryTimer(t))
  /\ WF_vars(startQueueProcessor)

FairSpec == Init /\ [][Next]_vars /\ Fairness

\* the writers of the webhooks table, IndexedDB and page reloads
NextStore ==
  \/ \E webhookData \in WebhookData : register(webhookData)
  \/ \E webhookId \in 1..Len(webhooks), retry_count \in RetryCounts :
       update(webhookId, retry_count)
  \/ \E webhookId \in 1..Len(webhooks) : delete(webhookId)
  \/ saveComplete
  \/ reload

StoreSpec == Init /\ [][NextStore]_vars

\* webhooks with headers and secrets, and a caller that changes the payload
\* objects it has passed to trigger
NextRequest ==
  \/ init
  \/ \E webhookData \in SignedWebhookData : register(webhookData)
  \/ \E eventType \in EventTypes, payload \in Payloads :
       trigger(eventType, payload)
  \/ \E payload \in Payloads, value \in PayloadValues : mutate(payload, value)
  \/ \E s \in inflight : generateSignature(s)
  \/ \E s \in inflight, outcome \in Outcomes, f1 \in BOOLEAN, f2 \in BOOLEAN :
       sendWebhookBounded(s, outcome, f1, f2)
  \/ \E t \in timers : retryTimer(t)
  \/ startQueueProcessor

RequestSpec == Init /\ [][NextRequest]_vars

\* registrations of well-formed and malformed webhooks, and what trigger
\* makes of them
NextConfig ==
  \/ \E webhookData \in ConfigWebhookData : register(webhookData)
  \/ \E eventType \in EventTypes, payload \in Payloads :
       trigger(eventType, payload)
  \/ \E s \in inflight, outcome \in Outcomes, f1 \in BOOLEAN, f2 \in BOOLEAN :
       sendWebhookBounded(s, outcome, f1, f2)

ConfigSpec == Init /\ [][NextConfig]_vars

(***************************************************************************)
(* One attempt followed through all its retries: the state after init(),   *)
(* register({events: ['*'], retry_count}) and trigger(eventType, payload), *)
(* then sends that all fail.                                               *)
(***************************************************************************)
InitBackoff ==
  \E retry_count \in 0..MaxRetryCount :
    LET hook == createWebhook(1, [url |-> Url, events |-> {"*"},
                                  retry_count |-> retry_count])
        item == [webhook |-> hook, eventType |-> "user.registered",
                 payload |-> "p1", retries |-> 0, lin |-> 1]
    IN /\ heap = [p \in Payloads |-> "u1+undef"]
       /\ webhooks = <<hook>>
       /\ deliveries = <<>>
       /\ idb = Image(<<>>, <<>>)
       /\ saves = <<Image(<<hook>>, <<>>)>>
       /\ queue = <<>>
       /\ processing = TRUE
       /\ inflight = {Send(item, "drain", 1)}
       /\ timers = {}
       /\ intervals = 1
       /\ nOps = 3
       /\ nFailures = 0
       /\ pushLog = <<[webhook_id |-> 1, retry_count |-> retry_count,
                       webhook |-> hook, ticking |-> TRUE]>>
       /\ lastOp = [op |-> "trigger", eventType |-> "user.registered",
                    promise |-> "fulfilled"]
       /\ InitPlugins

NextBackoff ==
  \/ \E s \in inflight, outcome \in {"error", "timeout"} :
       sendWebhook(s, outcome, FALSE, FALSE)
  \/ \E t \in timers : retryTimer(t)
  \/ startQueueProcessor

BackoffSpec == InitBackoff /\ [][NextBackoff]_vars

(***************************************************************************)
(* SettingsPlugin: set, get, delete and clearCache on one (category, key), *)
(* and the passing of time.                                                *)
(***************************************************************************)
MaxTicks == 3      \* steps by which the clock advances

advance(ms) ==
  /\ now < MaxTicks * ms
  /\ now' = now + ms
  /\ lastOp' = [op |-> "advance", ms |-> ms]
  /\ UNCHANGED <<webhookVars, extVars, apiVars, pwaVars, settingsVars,
                 authVars>>

settings_set(value) ==
  /\ kv_settings' = setSetting(kv_settings, value, detectType(value))
  /\ cache' = <<value>>
  /\ lastCacheUpdate' = <<now>>
  /\ lastSet' = <<value>>
  /\ lastOp' = [op |-> "settings.set", value |-> value]
  /\ UNCHANGED <<webhookVars, extVars, apiVars, pwaVars, authVars, now>>

settings_get ==
  /\ IF CacheHit(cache, lastCacheUpdate, now)
       THEN /\ lastOp' = [op |-> "settings.get", result |-> cache[1],
                          cached |-> TRUE]
            /\ UNCHANGED <<cache, lastCacheUpdate>>
       ELSE LET value == getSetting(kv_settings, JsNull)
            IN /\ cache' = <<value>>
               /\ lastCacheUpdate' = <<now>>
               /\ lastOp' = [op |-> "settings.get", result |-> value,
                             cached |-> FALSE]
  /\ UNCHANGED <<webhookVars, extVars, apiVars, pwaVars, authVars, kv_settings,
                 lastSet, now>>

\* UPDATE kv_settings SET active = 0 WHERE category = ? AND key = ?
settings_delete ==
  /\ kv_settings' = [i \in DOMAIN kv_settings |->
                       [kv_settings[i] EXCEPT !.active = 0]]
  /\ cache' = <<>>
  /\ lastCacheUpdate' = <<>>
  /\ lastSet' = <<>>
  /\ lastOp' = [op |-> "settings.delete"]
  /\ UNCHANGED <<webhookVars, extVars, apiVars, pwaVars, authVars, now>>

clearCache ==
  /\ cache # <<>>
  /\ cache' = <<>>
  /\ lastCacheUpdate' = <<>>
  /\ lastOp' = [op |-> "settings.clearCache"]
  /\ UNCHANGED <<webhookVars, extVars, apiVars, pwaVars, authVars, kv_settings,
                 lastSet, now>>

NextSettings ==
  \/ \E value \in SettingValues : settings_set(value)
  \/ settings_get
  \/ settings_delete
  \/ clearCache
  \/ advance(cacheTimeout \div 2)

SettingsSpec == Init /\ [][NextSettings]_vars

(***************************************************************************)
(* AuthPlugin.  login is suspended once, at its await of verifyPassword;   *)
(* the other methods run without being suspended.  last_activity and       *)
(* last_login are left out: nothing reads them.                            *)
(***************************************************************************)
MaxSessions == 1   \* logins started

\* restoreSession(sessionToken), as the values it leaves
Restored(sessionToken) ==
  LET session == getSession(sessions, sessionToken, now)
      user == IF session = <<>> THEN <<>>
              ELSE getUserById(users, session[1].user_id)
  IN IF session = <<>>
       THEN [ok |-> FALSE, sessions |-> sessions, localStorage |-> <<>>,
             currentUser |-> currentUser,
             currentSession |-> currentSession, events |-> <<>>]
     ELSE IF user = <<>>
       THEN [ok |-> FALSE,
             sessions |-> invalidateSession(sessions, sessionToken),
             localStorage |-> <<>>, currentUser |-> currentUser,
             currentSession |-> currentSession, events |-> <<>>]
     ELSE [ok |-> TRUE, sessions |-> sessions,
           localStorage |-> localStorage, currentUser |-> user,
           currentSession |-> session, events |-> <<"session-restored">>]

\* logout(), as the sessions table it leaves
LoggedOut ==
  IF currentSession # <<>>
    THEN invalidateSession(sessions, currentSession[1].id)
    ELSE sessions

auth_init ==
  /\ IF localStorage # <<>>
       THEN LET r == Restored(localStorage[1])
            IN /\ sessions' = r.sessions
               /\ localStorage' = r.localStorage
               /\ currentUser' = r.currentUser
               /\ currentSession' = r.currentSession
               /\ lastOp' = [op |-> "auth.init", events |-> r.events]
       ELSE /\ lastOp' = [op |-> "auth.init", events |-> <<>>]
            /\ UNCHANGED <<sessions, localStorage, currentUser,
                           currentSession>>
  /\ sessionCheckInterval' = TRUE
  /\ UNCHANGED <<webhookVars, extVars, apiVars, pwaVars, settingsVars, users,
                 logins, now>>

auth_register(userData) ==
  /\ IF getUserByUsername(users, userData.username) # <<>>
       THEN /\ lastOp' = [op |-> "auth.register", threw |-> TRUE]
            /\ UNCHANGED users
       ELSE /\ users' = createUser(users, userData,
                                   hashPassword(userData.password))
            /\ lastOp' = [op |-> "auth.register", threw |-> FALSE]
  /\ UNCHANGED <<webhookVars, extVars, apiVars, pwaVars, settingsVars,
                 sessions, localStorage, currentUser, currentSession,
                 sessionCheckInterval, logins, now>>

login(username, password) ==
  /\ Len(sessions) + Cardinality(logins) < MaxSessions
  /\ LET user == getUserByUsername(users, username)
     IN IF user = <<>>
          THEN /\ lastOp' = [op |-> "login", username |-> username,
                             password |-> password, result |-> "rejected"]
               /\ UNCHANGED logins
          ELSE /\ logins' = logins \cup {[username |-> username,
                                         password |-> password,
                                         user |-> user[1]]}
               /\ lastOp' = [op |-> "login.await"]
  /\ UNCHANGED <<webhookVars, extVars, apiVars, pwaVars, settingsVars, users,
                 sessions, localStorage, currentUser, currentSession,
                 sessionCheckInterval, now>>

\* login, from the return of verifyPassword to its end
loginVerified(l) ==
  /\ logins' = logins \ {l}
  /\ IF verifyPassword(l.password, l.user.password_hash)
       THEN LET sessionToken == Len(sessions) + 1
            IN /\ sessions' = createSession(sessions, l.user.id, now)
               /\ localStorage' = <<sessionToken>>
               /\ currentUser' = <<l.user>>
               /\ currentSession' = <<[id |-> sessionToken,
                                       user_id |-> l.user.id]>>
               /\ lastOp' = [op |-> "login", username |-> l.username,
                             password |-> l.password,
                             result |-> "fulfilled",
                             user |-> sanitizeUser(l.user),
                             sessionToken |-> sessionToken,
                             events |-> <<"login">>]
       ELSE /\ lastOp' = [op |-> "login", username |-> l.username,
                          password |-> l.password, result |-> "rejected"]
            /\ UNCHANGED <<sessions, localStorage, currentUser,
                           currentSession>>
  /\ UNCHANGED <<webhookVars, extVars, apiVars, pwaVars, settingsVars, users,
                 sessionCheckInterval, now>>

logout ==
  /\ sessions' = LoggedOut
  /\ localStorage' = <<>>
  /\ currentUser' = <<>>
  /\ currentSession' = <<>>
  /\ lastOp' = [op |-> "logout", events |-> <<"logout">>]
  /\ UNCHANGED <<webhookVars, extVars, apiVars, pwaVars, settingsVars, users,
                 sessionCheckInterval, logins, now>>

restoreSession(sessionToken) ==
  LET r == Restored(sessionToken)
  IN /\ sessions' = r.sessions
     /\ localStorage' = r.localStorage
     /\ currentUser' = r.currentUser
     /\ currentSession' = r.currentSession
     /\ lastOp' = [op |-> "restoreSession", sessionToken |-> sessionToken,
                   result |-> r.ok, events |-> r.events]
     /\ UNCHANGED <<webhookVars, extVars, apiVars, pwaVars, settingsVars,
                    users, sessionCheckInterval, logins, now>>

\* UPDATE users SET password_hash = ? WHERE id = ?
setPasswordHash(u, id, hash) ==
  [i \in DOMAIN u |-> IF u[i].id = id
                        THEN [u[i] EXCEPT !.password_hash = hash]
                        ELSE u[i]]

\* changePassword, called and awaited to its end; its two digests wait
\* for nothing the other calls of the model could change
changePassword(oldPassword, newPassword) ==
  /\ IF ~isAuthenticated(currentUser, currentSession)
       THEN /\ lastOp' = [op |-> "changePassword",
                          oldPassword |-> oldPassword,
                          newPassword |-> newPassword,
                          threw |-> "Authentication required"]
            /\ UNCHANGED users
     ELSE IF ~verifyPassword(oldPassword, currentUser[1].password_hash)
       THEN /\ lastOp' = [op |-> "changePassword",
                          oldPassword |-> oldPassword,
                          newPassword |-> newPassword,
                          threw |-> "Invalid current password"]
            /\ UNCHANGED users
     ELSE /\ users' = setPasswordHash(users, currentUser[1].id,
                                      hashPassword(newPassword))
          /\ lastOp' = [op |-> "changePassword",
                        oldPassword |-> oldPassword,
                        newPassword |-> newPassword, threw |-> ""]
  /\ UNCHANGED <<webhookVars, extVars, apiVars, pwaVars, settingsVars,
                 sessions, localStorage, currentUser, currentSession,
                 sessionCheckInterval, logins, now>>

\* the callback of the ticker of startSessionCheck
sessionCheck ==
  /\ sessionCheckInterval
  /\ IF /\ currentSession # <<>>
        /\ localStorage # <<>>
        /\ getSession(sessions, localStorage[1], now) = <<>>
       THEN /\ sessions' = LoggedOut
            /\ localStorage' = <<>>
            /\ currentUser' = <<>>
            /\ currentSession' = <<>>
            /\ lastOp' = [op |-> "sessionCheck",
                          events |-> <<"logout", "session-expired">>]
       ELSE /\ lastOp' = [op |-> "sessionCheck", events |-> <<>>]
            /\ UNCHANGED <<sessions, localStorage, currentUser,
                           currentSession>>
  /\ UNCHANGED <<webhookVars, extVars, apiVars, pwaVars, settingsVars, users,
                 sessionCheckInterval, logins, now>>

NextAuth ==
  \/ auth_init
  \/ \E userData \in UserData : auth_register(userData)
  \/ \E in \in LoginInputs : login(in[1], in[2])
  \/ \E l \in logins : loginVerified(l)
  \/ logout
  \/ \E sessionToken \in 1..Len(sessions) : restoreSession(sessionToken)
  \/ sessionCheck
  \/ \E oldPassword \in Passwords, newPassword \in Passwords :
       changePassword(oldPassword, newPassword)
  \/ advance(expiryHours * 30 * 60 * 1000)
  \/ advance(expiryHours * 60 * 60 * 1000)

AuthSpec == Init /\ [][NextAuth]_vars

(***************************************************************************)
(* APIPlugin: register, unregister, use, init and handle.  The middleware  *)
(* and handlers of the model settle at once, so that handle is one step.   *)
(***************************************************************************)
MaxMiddleware == 1   \* middleware added with use

api_register(method, route, handler, options) ==
  LET key == <<toUpperCase(method), route>>
      id == Len(api_endpoints) + 1
  IN /\ IF RouteTaken(api_endpoints, route)
          THEN /\ lastOp' = [op |-> "api.register", key |-> key,
                             threw |-> TRUE]
               /\ UNCHANGED <<api_endpoints, handlers>>
          ELSE /\ api_endpoints' =
                    Append(api_endpoints,
                           [id |-> id, route |-> route,
                            method |-> toUpperCase(method),
                            handler |-> "custom",
                            auth_required |-> options.authRequired,
                            rate_limit |-> options.rateLimit,
                            active |-> 1,
                            request_schema |-> options.requestSchema])
               /\ handlers' =
                    Put(handlers, key,
                        [id |-> id, route |-> route,
                         method |-> toUpperCase(method),
                         handler |-> handler,
                         auth_required |-> options.authRequired,
                         rate_limit |-> options.rateLimit,
                         request_schema |-> options.requestSchema])
               /\ lastOp' = [op |-> "api.register", key |-> key,
                             threw |-> FALSE]
     /\ UNCHANGED <<webhookVars, extVars, settingsVars, authVars, pwaVars,
                    middleware, rateLimits, admitted, now>>

unregister(method, route) ==
  LET key == <<toUpperCase(method), route>>
  IN /\ handlers' = Delete(handlers, key)
     /\ api_endpoints' =
          [i \in DOMAIN api_endpoints |->
             IF /\ api_endpoints[i].method = toUpperCase(method)
                /\ api_endpoints[i].route = route
               THEN [api_endpoints[i] EXCEPT !.active = 0]
               ELSE api_endpoints[i]]
     /\ lastOp' = [op |-> "api.unregister", key |-> key]
     /\ UNCHANGED <<webhookVars, extVars, settingsVars, authVars, pwaVars,
                    middleware, rateLimits, admitted, now>>

use(fn) ==
  /\ Len(middleware) < MaxMiddleware
  /\ middleware' = Append(middleware, fn)
  /\ lastOp' = [op |-> "api.use"]
  /\ UNCHANGED <<webhookVars, extVars, settingsVars, authVars, pwaVars,
                 api_endpoints, handlers, rateLimits, admitted, now>>

\* loadEndpointsFromDb, as the handlers it leaves
LoadedHandlers ==
  LET active == SelectSeq(api_endpoints, LAMBDA r : r.active = 1)
      keys == {<<active[i].method, active[i].route>> : i \in DOMAIN active}
      row(k) == CHOOSE r \in {active[i] : i \in DOMAIN active} :
                  <<r.method, r.route>> = k
  IN [k \in DOMAIN handlers \cup keys |->
        IF k \in keys
          THEN [f \in (DOMAIN row(k)) \ {"active"} |-> row(k)[f]]
          ELSE handlers[k]]

api_init ==
  /\ handlers' = LoadedHandlers
  /\ lastOp' = [op |-> "api.init"]
  /\ UNCHANGED <<webhookVars, extVars, settingsVars, authVars, pwaVars,
                 api_endpoints, middleware, rateLimits, admitted, now>>

\* handle(method, route, request), as the response, whether the handler
\* was invoked, whether checkRateLimit let the request by, whether handle
\* rejected, and the rateLimits it leaves
HandleResult(key, request) ==
  LET answer(status, invoked, counted, limits) ==
        [status |-> status, invoked |-> invoked, counted |-> counted,
         threw |-> FALSE, rateLimits |-> limits]
  IN IF key \notin DOMAIN handlers
       THEN answer(404, FALSE, FALSE, rateLimits)
     ELSE IF /\ handlers[key].auth_required
             /\ ~isAuthenticated(currentUser, currentSession)
       THEN answer(401, FALSE, FALSE, rateLimits)
     ELSE
       LET endpoint == handlers[key]
           rl == checkRateLimit(rateLimits, key, endpoint.rate_limit, now)
           mw == RunMiddleware(middleware)
       IN IF ~rl.ok THEN answer(429, FALSE, FALSE, rl.rateLimits)
          ELSE IF mw = "false" THEN answer(403, FALSE, TRUE, rl.rateLimits)
          ELSE IF mw = "response"
            THEN answer(422, FALSE, TRUE, rl.rateLimits)
          ELSE IF mw = "throws" THEN answer(500, FALSE, TRUE, rl.rateLimits)
          ELSE IF /\ endpoint.request_schema # <<>>
                  /\ request.body # <<>>
                  /\ ~validateSchema(request.body[1],
                                     endpoint.request_schema[1])
            THEN answer(400, FALSE, TRUE, rl.rateLimits)
          ELSE IF endpoint.handler = "custom"
            THEN answer(500, FALSE, TRUE, rl.rateLimits)
          ELSE IF endpoint.handler = "throws"
            THEN answer(500, TRUE, TRUE, rl.rateLimits)
          \* the catch block reads error.message of undefined
          ELSE IF endpoint.handler = "rejects"
            THEN [status |-> 0, invoked |-> TRUE, counted |-> TRUE,
                  threw |-> TRUE, rateLimits |-> rl.rateLimits]
          ELSE answer(200, TRUE, TRUE, rl.rateLimits)

handle(method, route, request) ==
  LET key == <<toUpperCase(method), route>>
      r == HandleResult(key, request)
  IN /\ rateLimits' = r.rateLimits
     /\ admitted' = IF r.counted
                      THEN Append(admitted, [key |-> key, time |-> now])
                      ELSE admitted
     /\ lastOp' = [op |-> "api.handle", key |-> key, request |-> request,
                   status |-> r.status, invoked |-> r.invoked,
                   threw |-> r.threw]
     /\ UNCHANGED <<webhookVars, extVars, settingsVars, authVars, pwaVars,
                    api_endpoints, handlers, middleware, now>>

NextApi ==
  \/ \E method \in Methods, route \in Routes, handler \in Handlers,
        options \in EndpointOptions :
       api_register(method, route, handler, options)
  \/ \E method \in Methods, route \in Routes : unregister(method, route)
  \/ \E fn \in Middlewares : use(fn)
  \/ api_init
  \/ \E method \in Methods, route \in Routes, request \in ApiRequests :
       handle(method, route, request)
  \/ \E userData \in UserData : auth_register(userData)
  \/ \E userData \in UserData : login(userData.username, userData.password)
  \/ \E l \in logins : loginVerified(l)
  \/ logout
  \/ advance(windowMs \div 2)

ApiSpec == Init /\ [][NextApi]_vars

(***************************************************************************)
(* PWAComponents: init, whenReady and shutdown.  init is suspended at its  *)
(* await of DatabaseService.init when the database is not initialized      *)
(* yet; the plugin init calls after it do not wait for anything outside    *)
(* the program and run as one step.                                        *)
(***************************************************************************)
MaxWaiters == 2    \* whenReady calls

InitOptions == {[enableMetrics |-> TRUE], [enableMetrics |-> FALSE]}
\* "ok": every step returns; "pages": dynamicPagePlugin.init throws
InitOutcomes == {"ok", "pages"}

\* the steps of init after DatabaseService.init
Steps(options, outcome) ==
  IF outcome = "pages" THEN {"database", "logging", "auth"}
  ELSE {"database", "logging", "auth", "pages", "webhooks", "api"}
         \cup (IF options.enableMetrics THEN {"metrics"} ELSE {})

\* init from the return of DatabaseService.init to its end
RunInit(options, outcome) ==
  /\ LET r == IF localStorage # <<>> THEN Restored(localStorage[1])
              ELSE [sessions |-> sessions, localStorage |-> localStorage,
                    currentUser |-> currentUser,
                    currentSession |-> currentSession]
     IN /\ sessions' = r.sessions
        /\ localStorage' = r.localStorage
        /\ currentUser' = r.currentUser
        /\ currentSession' = r.currentSession
  /\ sessionCheckInterval' = TRUE
  /\ IF outcome = "ok"
       THEN /\ intervals' = intervals + 1
            /\ handlers' = LoadedHandlers
            /\ initialized' = TRUE
            /\ resolved' = resolved + waiters
            /\ waiters' = 0
            /\ lastOp' = [op |-> "pwa.init", result |-> "fulfilled",
                          steps |-> Steps(options, outcome),
                          options |-> options, ready |-> TRUE]
       ELSE /\ lastOp' = [op |-> "pwa.init", result |-> "rejected",
                          steps |-> Steps(options, outcome),
                          options |-> options, ready |-> initialized]
            /\ UNCHANGED <<intervals, handlers, initialized, resolved,
                           waiters>>

pwa_init(options, outcome) ==
  /\ nOps < MaxOps
  /\ nOps' = nOps + 1
  /\ IF initialized
       THEN /\ lastOp' = [op |-> "pwa.init", result |-> "fulfilled",
                          steps |-> {}, options |-> options,
                          ready |-> TRUE]
            /\ UNCHANGED <<inits, intervals, handlers, initialized,
                           resolved, waiters, sessions, localStorage,
                           currentUser, currentSession,
                           sessionCheckInterval>>
     ELSE IF dbInitialized
       THEN /\ RunInit(options, outcome)
            /\ UNCHANGED inits
     ELSE /\ inits' = Append(inits, options)
          /\ lastOp' = [op |-> "pwa.init.await"]
          /\ UNCHANGED <<intervals, handlers, initialized, resolved,
                         waiters, sessions, localStorage, currentUser,
                         currentSession, sessionCheckInterval>>
  /\ UNCHANGED <<settingsVars, extVars, webhooks, deliveries, idb, saves,
                 queue, processing, inflight, timers, heap, nFailures, pushLog,
                 users, logins, api_endpoints, middleware, rateLimits,
                 admitted, dbInitialized, shutdowns, now>>

\* DatabaseService.init returns to the i-th suspended init, or throws
dbInitDone(i, dbOk, outcome) ==
  /\ i \in DOMAIN inits
  /\ inits' = SubSeq(inits, 1, i - 1) \o SubSeq(inits, i + 1, Len(inits))
  /\ IF dbOk
       THEN /\ dbInitialized' = TRUE
            /\ RunInit(inits[i], outcome)
       ELSE /\ ~dbInitialized
            /\ lastOp' = [op |-> "pwa.init", result |-> "rejected",
                          steps |-> {}, options |-> inits[i],
                          ready |-> initialized]
            /\ UNCHANGED <<dbInitialized, intervals, handlers,
                           initialized, resolved, waiters, sessions,
                           localStorage, currentUser, currentSession,
                           sessionCheckInterval>>
  /\ UNCHANGED <<settingsVars, extVars, webhooks, deliveries, idb, saves,
                 queue, processing, inflight, timers, heap, nOps, nFailures,
                 pushLog, users, logins, api_endpoints, middleware, rateLimits,
                 admitted, shutdowns, now>>

whenReady_NoWait ==
  /\ resolved + waiters < MaxWaiters
  /\ resolved' = resolved + 1
  /\ lastOp' = [op |-> "whenReady", ready |-> initialized]
  /\ UNCHANGED waiters
  /\ UNCHANGED <<webhookVars, extVars, settingsVars, authVars, apiVars,
                 dbInitialized, initialized, inits, shutdowns, now>>
whenReady ==
  /\ resolved + waiters < MaxWaiters
  /\ IF initialized
       THEN /\ resolved' = resolved + 1
            /\ UNCHANGED waiters
       ELSE /\ waiters' = waiters + 1
            /\ UNCHANGED resolved
  /\ lastOp' = [op |-> "whenReady", ready |-> initialized]
  /\ UNCHANGED <<webhookVars, extVars, settingsVars, authVars, apiVars,
                 dbInitialized, initialized, inits, shutdowns, now>>

\* shutdown, to its await of saveToIndexedDB
shutdown ==
  /\ nOps < MaxOps
  /\ nOps' = nOps + 1
  /\ saves' = saveToIndexedDB(saves, webhooks, deliveries)
  /\ shutdowns' = shutdowns + 1
  /\ lastOp' = [op |-> "shutdown.await"]
  /\ UNCHANGED <<settingsVars, extVars, authVars, apiVars, webhooks,
                 deliveries, idb, queue, processing, inflight, timers,
                 intervals, heap, nFailures, pushLog, dbInitialized,
                 initialized, inits, waiters, resolved, now>>

\* shutdown, from the completion of its save to its end
shutdownSaved ==
  /\ shutdowns > 0
  /\ Len(saves) > 0
  /\ idb' = Head(saves)
  /\ saves' = Tail(saves)
  /\ shutdowns' = shutdowns - 1
  /\ sessionCheckInterval' = FALSE
  /\ initialized' = FALSE
  /\ lastOp' = [op |-> "shutdown"]
  /\ UNCHANGED <<settingsVars, extVars, apiVars, webhooks, deliveries, queue,
                 processing, inflight, timers, intervals, heap, nOps,
                 nFailures, pushLog, users, sessions, localStorage,
                 currentUser, currentSession, logins, dbInitialized, inits,
                 waiters, resolved, now>>

NextPwa ==
  \/ \E options \in InitOptions, outcome \in InitOutcomes :
       pwa_init(options, outcome)
  \/ \E i \in DOMAIN inits, dbOk \in BOOLEAN, outcome \in InitOutcomes :
       dbInitDone(i, dbOk, outcome)
  \/ whenReady
  \/ shutdown
  \/ shutdownSaved

PwaSpec == Init /\ [][NextPwa]_vars

(***************************************************************************)
(* LoggingPlugin.  A logging call is synchronous: the whole call, with     *)
(* every console method and logger method it enters, is one step.  The     *)
(* call stack holds MaxStack nested activations of log; one more throws    *)
(* RangeError, which nothing on the way out catches.                       *)
(***************************************************************************)
MaxStack == 3   \* nested activations of log the call stack holds

logLevels == [debug |-> 0, info |-> 1, warn |-> 2, error |-> 3, fatal |-> 4]
Levels == DOMAIN logLevels
maxLogsInMemory == 1000
ConsoleMethods == {"log", "debug", "info", "warn", "error"}
Messages == {<<"m">>}
\* options of init: level absent (<<>>) or given
LoggingOptions ==
  [level : {<<>>, <<"debug">>, <<"warn">>}, console : BOOLEAN,
   database : BOOLEAN, captureConsole : BOOLEAN]

\* what a logging call has done so far, and what it threw
LogState(mem, rows, events) ==
  [memoryLogs |-> mem, logs |-> rows, logEvents |-> events, threw |-> ""]

\* memoryLogs.push(logEntry), then shift() past maxLogsInMemory
PushMemory(mem, logEntry) ==
  LET pushed == Append(mem, logEntry)
  IN  IF Len(pushed) > maxLogsInMemory THEN Tail(pushed) ELSE pushed

\* the console method logToConsole picks for a level
consoleMethod(level) == IF level = "fatal" THEN "error" ELSE level

\* `[${timestamp}] [${level.toUpperCase()}] ${message}`
Prefixed(level, message) == <<"[time]", level>> \o message

\* the logger method a console wrapper calls, with its options
WrapperLevel(method) == IF method = "log" THEN "debug" ELSE method
WrapperOptions(method) ==
  [category |-> "console", stackTrace |-> method = "error"]

RECURSIVE log(_, _, _, _, _)
RECURSIVE console(_, _, _, _, _)

\* logToConsole(logEntry), called by the activation of log at depth
logToConsole(L, logEntry, depth) ==
  LET method == consoleMethod(logEntry.level)
      L1 == console(L, method,
                    Prefixed(logEntry.level, logEntry.message), depth,
                    captures)
  IN  IF L1.threw # "" THEN L1
      ELSE IF logEntry.stackTrace
             THEN console(L1, method, <<"Stack trace:">>, depth, captures)
             ELSE L1

\* log(level, message, options) entered as the depth-th nested activation
log(L, level, message, options, depth) ==
  IF depth > MaxStack THEN [L EXCEPT !.threw = "RangeError"]
  ELSE IF logLevels[level] < logLevels[currentLevel] THEN L
  ELSE
    LET logEntry == [level |-> level, message |-> message,
                     category |-> options.category,
                     stackTrace |-> options.stackTrace
                                      \/ level \in {"error", "fatal"}]
        L1 == [L EXCEPT !.memoryLogs = PushMemory(@, logEntry)]
        L2 == IF consoleEnabled THEN logToConsole(L1, logEntry, depth)
              ELSE L1
        L3 == IF dbEnabled THEN [L2 EXCEPT !.logs = Append(@, logEntry)]
              ELSE L2
    IN  IF L2.threw # "" THEN L2
        ELSE [L3 EXCEPT !.logEvents = @ + 1]

\* console[method](message) entered at the k-th wrapper around the native
\* method: the wrapper calls the logger, then the method it replaced
console(L, method, message, depth, k) ==
  IF k = 0 THEN L
  ELSE
    LET L1 == log(L, WrapperLevel(method), message, WrapperOptions(method),
                  depth + 1)
    IN  IF L1.threw # "" THEN L1
        ELSE console(L1, method, message, depth, k - 1)

logging_init(options) ==
  /\ nOps < MaxOps
  /\ nOps' = nOps + 1
  /\ currentLevel' = IF options.level = <<>> THEN "info"
                     ELSE options.level[1]
  /\ consoleEnabled' = options.console
  /\ dbEnabled' = options.database
  /\ captures' = IF options.captureConsole THEN captures + 1 ELSE captures
  /\ lastOp' = [op |-> "logging.init"]
  /\ UNCHANGED <<webhooks, deliveries, idb, saves, queue, processing,
                 inflight, timers, intervals, heap, nFailures, pushLog,
                 settingsVars, authVars, apiVars, pwaVars, memoryLogs, logs,
                 logEvents, pagesVars, syncVars, now>>

\* the state a finished logging call leaves
Logged(L) ==
  /\ memoryLogs' = L.memoryLogs
  /\ logs' = L.logs
  /\ logEvents' = L.logEvents
  /\ UNCHANGED <<webhooks, deliveries, idb, saves, queue, processing,
                 inflight, timers, intervals, heap, nFailures, pushLog,
                 settingsVars, authVars, apiVars, pwaVars, currentLevel,
                 consoleEnabled, dbEnabled, captures, pagesVars, syncVars,
                 now>>

\* logging.debug / info / warn / error / fatal (message)
logging_log(level, message) ==
  /\ nOps < MaxOps
  /\ nOps' = nOps + 1
  /\ LET L == log(LogState(memoryLogs, logs, logEvents), level, message,
                  [category |-> Null, stackTrace |-> FALSE], 1)
     IN  /\ Logged(L)
         /\ lastOp' = [op |-> "logging.log", level |-> level,
                       threw |-> L.threw]

\* a call of console.log / debug / info / warn / error by any code
console_call(method, message) ==
  /\ nOps < MaxOps
  /\ nOps' = nOps + 1
  /\ LET L == console(LogState(memoryLogs, logs, logEvents), method, message,
                      0, captures)
     IN  /\ Logged(L)
         /\ lastOp' = [op |-> "console", method |-> method,
                       threw |-> L.threw]

clearMemoryLogs ==
  /\ memoryLogs # <<>>
  /\ memoryLogs' = <<>>
  /\ lastOp' = [op |-> "clearMemoryLogs"]
  /\ UNCHANGED <<webhookVars, settingsVars, authVars, apiVars, pwaVars,
                 currentLevel, consoleEnabled, dbEnabled, logs, logEvents,
                 captures, pagesVars, syncVars, now>>

NextLogging ==
  \/ \E options \in LoggingOptions : logging_init(options)
  \/ \E level \in Levels, message \in Messages : logging_log(level, message)
  \/ \E method \in ConsoleMethods, message \in Messages :
       console_call(method, message)
  \/ clearMemoryLogs

LoggingSpec == Init /\ [][NextLogging]_vars

(***************************************************************************)
(* DynamicPagePlugin over table content_pages.  Every call is synchronous  *)
(* (handleRoute awaits its middleware only, and none is installed), so     *)
(* each is one step.  The metadata column holds JSON text or NULL (<<>>).  *)
(***************************************************************************)
PageRoutes == {"/a", "/b"}
Metadata == {<<>>, <<"object", "k:v">>}
\* pageData of savePage: published absent (<<>>), 0 or 1
PageData ==
  [route : PageRoutes, published : {<<>>, <<0>>, <<1>>}, metadata : Metadata]

JSON_stringify(value) == <<"json", value[2]>>
\* JSON.parse(text) of a value that is no JSON text throws SyntaxError
JSON_parses(text) == text[1] = "json"
JSON_parse(text) == <<"object", text[2]>>

PageRows(rows, route) == {i \in DOMAIN rows : rows[i].route = route}

\* dbService.savePage: INSERT ... ON CONFLICT(route) DO UPDATE
db_savePage(rows, pageData) ==
  LET metadata == IF pageData.metadata # <<>>
                  THEN JSON_stringify(pageData.metadata) ELSE <<>>
      published == IF pageData.published = <<>> THEN 0
                   ELSE pageData.published[1]
  IN  IF PageRows(rows, pageData.route) = {}
      THEN Append(rows, [id |-> Len(rows) + 1, route |-> pageData.route,
                         metadata |-> metadata, published |-> published,
                         active |-> 1])
      ELSE [i \in DOMAIN rows |->
              IF rows[i].route = pageData.route
              THEN [rows[i] EXCEPT !.metadata = metadata,
                                   !.published = published]
              ELSE rows[i]]

\* dbService.getPageByRoute: <<>> for no row, else <<page>>
getPageByRoute(rows, route) ==
  LET found == {i \in PageRows(rows, route) : rows[i].active = 1}
  IN  IF found = {} THEN <<>>
      ELSE LET page == rows[CHOOSE i \in found : TRUE]
           IN  <<IF page.metadata # <<>>
                 THEN [page EXCEPT !.metadata = JSON_parse(@)]
                 ELSE page>>

\* dbService.getPublishedPages: the rows of v_published_content, which
\* selects neither published nor active
getPublishedPages(rows) ==
  LET published == SelectSeq(rows, LAMBDA page : /\ page.published = 1
                                                 /\ page.active = 1)
  IN  [i \in DOMAIN published |->
         [id |-> published[i].id, route |-> published[i].route,
          metadata |-> published[i].metadata]]

\* registerPage(page): the routes map after it, or the exception
registerThrows(page) == page.metadata # <<>> /\ ~JSON_parses(page.metadata)
registerPage(cache_, page) ==
  [r \in DOMAIN cache_ \cup {page.route} |->
     IF r = page.route
     THEN [page EXCEPT !.metadata = IF page.metadata # <<>>
                                    THEN JSON_parse(@) ELSE <<>>]
     ELSE cache_[r]]

unregisterPage(cache_, route) ==
  [r \in DOMAIN cache_ \ {route} |-> cache_[r]]

\* getPage(route): [routes, result, threw], result <<>> for null
getPage(rows, cache_, route) ==
  IF route \in DOMAIN cache_
  THEN [routes |-> cache_, result |-> <<cache_[route]>>, threw |-> ""]
  ELSE LET page == getPageByRoute(rows, route)
       IN  IF page = <<>>
           THEN [routes |-> cache_, result |-> <<>>, threw |-> ""]
           ELSE IF registerThrows(page[1])
           THEN [routes |-> cache_, result |-> <<>>,
                 threw |-> "SyntaxError"]
           ELSE LET registered == registerPage(cache_, page[1])
                IN  [routes |-> registered,
                     result |-> <<registered[route]>>, threw |-> ""]

\* registerPage of the row read back by savePage and publishPage
Reload(rows, route, op) ==
  LET page == getPageByRoute(rows, route)
  IN  /\ routes' = IF page = <<>> \/ registerThrows(page[1]) THEN routes
                   ELSE registerPage(routes, page[1])
      /\ lastOp' = [op |-> op, route |-> route,
                    threw |-> IF page # <<>> /\ registerThrows(page[1])
                              THEN "SyntaxError" ELSE ""]

RECURSIVE registerAll(_, _)
registerAll(cache_, pages) ==
  IF pages = <<>> THEN cache_
  ELSE registerAll(registerPage(cache_, Head(pages)), Tail(pages))

\* init(router): loadPagesFromDb
pages_init ==
  /\ routes' = registerAll(routes, getPublishedPages(content_pages))
  /\ routes' # routes
  /\ lastOp' = [op |-> "pages.init"]
  /\ UNCHANGED <<webhookVars, settingsVars, authVars, apiVars, pwaVars,
                 loggingVars, syncVars, now, content_pages, unpublished>>

savePage(pageData) ==
  /\ content_pages' = db_savePage(content_pages, pageData)
  /\ Reload(content_pages', pageData.route, "savePage")
  /\ unpublished' = IF pageData.published = <<1>>
                    THEN unpublished \ {pageData.route} ELSE unpublished
  /\ UNCHANGED <<webhookVars, settingsVars, authVars, apiVars, pwaVars,
                 loggingVars, syncVars, now>>

deletePage(route) ==
  /\ content_pages' = [i \in DOMAIN content_pages |->
                         IF content_pages[i].route = route
                         THEN [content_pages[i] EXCEPT !.active = 0,
                                                       !.published = 0]
                         ELSE content_pages[i]]
  /\ routes' = unregisterPage(routes, route)
  /\ lastOp' = [op |-> "deletePage", route |-> route, threw |-> ""]
  /\ UNCHANGED <<webhookVars, settingsVars, authVars, apiVars, pwaVars,
                 loggingVars, syncVars, now, unpublished>>

setPublished(rows, route, published) ==
  [i \in DOMAIN rows |->
     IF rows[i].route = route THEN [rows[i] EXCEPT !.published = published]
     ELSE rows[i]]

publishPage(route) ==
  /\ content_pages' = setPublished(content_pages, route, 1)
  /\ Reload(content_pages', route, "publishPage")
  /\ unpublished' = unpublished \ {route}
  /\ UNCHANGED <<webhookVars, settingsVars, authVars, apiVars, pwaVars,
                 loggingVars, syncVars, now>>

unpublishPage(route) ==
  /\ content_pages' = setPublished(content_pages, route, 0)
  /\ routes' = unregisterPage(routes, route)
  /\ unpublished' = unpublished \cup {route}
  /\ lastOp' = [op |-> "unpublishPage", route |-> route, threw |-> ""]
  /\ UNCHANGED <<webhookVars, settingsVars, authVars, apiVars, pwaVars,
                 loggingVars, syncVars, now>>

\* a caller of getPage(route)
pages_getPage(route) ==
  LET got == getPage(content_pages, routes, route)
  IN  /\ routes' = got.routes
      /\ lastOp' = [op |-> "getPage", route |-> route,
                    result |-> got.result, threw |-> got.threw]
      /\ UNCHANGED <<webhookVars, settingsVars, authVars, apiVars, pwaVars,
                     loggingVars, syncVars, now, content_pages,
                     unpublished>>

\* renderPage(route), called directly (op = "renderPage") or by
\* handleRoute(route): the not-found page for no page, else the page
\* rendered; getPage is called outside the try
renderPage(route, op) ==
  LET got == getPage(content_pages, routes, route)
  IN  /\ routes' = got.routes
      /\ lastOp' = [op |-> op, route |-> route,
                    result |-> IF got.threw # "" THEN <<>>
                               ELSE IF got.result = <<>> THEN <<"notFound">>
                               ELSE <<"page", got.result[1].id>>,
                    threw |-> got.threw]
      /\ UNCHANGED <<webhookVars, settingsVars, authVars, apiVars, pwaVars,
                     loggingVars, syncVars, now, content_pages,
                     unpublished>>

NextPages ==
  \/ pages_init
  \/ \E pageData \in PageData : savePage(pageData)
  \/ \E route \in PageRoutes : deletePage(route)
  \/ \E route \in PageRoutes : publishPage(route)
  \/ \E route \in PageRoutes : unpublishPage(route)
  \/ \E route \in PageRoutes : pages_getPage(route)
  \/ \E route \in PageRoutes : renderPage(route, "renderPage")
  \/ \E route \in PageRoutes : renderPage(route, "handleRoute")

PagesSpec == Init /\ [][NextPages]_vars

(***************************************************************************)
(* The sync queue of DatabaseService: table sync_queue and the view        *)
(* v_pending_sync.  Every call is synchronous and is one step.             *)
(***************************************************************************)
MaxItems == 2          \* rows queueSync adds
MaxSyncFailures == 6   \* markSyncFailed calls followed for one row

maxRetries == 5
Priorities == {1, 5}
Limits == {1, 10}

\* the rows of v_pending_sync, unordered
PendingRows(rows) ==
  {i \in DOMAIN rows : /\ rows[i].status \in {"pending", "failed"}
                       /\ rows[i].retry_count < maxRetries}

\* row a sorts after row b under ORDER BY priority ASC, create_date ASC
SortsAfter(a, b) ==
  \/ a.priority > b.priority
  \/ a.priority = b.priority /\ TextGreater(a.create_date, b.create_date)

\* the orders in which SQLite may return the rows of v_pending_sync: rows
\* with the same priority and create_date come in either order
v_pending_sync(rows) ==
  LET pending == PendingRows(rows)
      n == Cardinality(pending)
  IN  {s \in [1..n -> pending] :
         /\ \A i, j \in 1..n : i # j => s[i] # s[j]
         /\ \A i, j \in 1..n : i < j => ~SortsAfter(rows[s[i]], rows[s[j]])}

\* LIMIT ?
Limit(s, limit) == SubSeq(s, 1, IF Len(s) < limit THEN Len(s) ELSE limit)

queueSync(priority) ==
  /\ Len(sync_queue) < MaxItems
  /\ sync_queue' = Append(sync_queue,
                          [id |-> Len(sync_queue) + 1,
                           create_date |-> toISOString(now),
                           status |-> "pending", retry_count |-> 0,
                           priority |-> priority])
  /\ syncHistory' = Append(syncHistory, [completed |-> FALSE, failed |-> 0])
  /\ lastOp' = [op |-> "queueSync"]
  /\ UNCHANGED <<webhookVars, settingsVars, authVars, apiVars, pwaVars,
                 loggingVars, pagesVars, now>>

getPendingSyncItems(limit) ==
  /\ \E s \in v_pending_sync(sync_queue) :
       lastOp' = [op |-> "getPendingSyncItems", limit |-> limit,
                  result |-> Limit(s, limit)]
  /\ UNCHANGED <<webhookVars, settingsVars, authVars, apiVars, pwaVars,
                 extVars, now>>

markSyncCompleted(syncId) ==
  /\ sync_queue' = [sync_queue EXCEPT ![syncId].status = "synced"]
  /\ syncHistory' = [syncHistory EXCEPT ![syncId].completed = TRUE]
  /\ lastOp' = [op |-> "markSyncCompleted", syncId |-> syncId]
  /\ UNCHANGED <<webhookVars, settingsVars, authVars, apiVars, pwaVars,
                 loggingVars, pagesVars, now>>

markSyncFailed(syncId) ==
  /\ sync_queue[syncId].retry_count < MaxSyncFailures
  /\ sync_queue' = [sync_queue EXCEPT ![syncId].status = "failed",
                                      ![syncId].retry_count = @ + 1]
  /\ syncHistory' = [syncHistory EXCEPT ![syncId].failed = @ + 1]
  /\ lastOp' = [op |-> "markSyncFailed", syncId |-> syncId]
  /\ UNCHANGED <<webhookVars, settingsVars, authVars, apiVars, pwaVars,
                 loggingVars, pagesVars, now>>

NextSync ==
  \/ \E priority \in Priorities : queueSync(priority)
  \/ \E limit \in Limits : getPendingSyncItems(limit)
  \/ \E syncId \in DOMAIN sync_queue : markSyncCompleted(syncId)
  \/ \E syncId \in DOMAIN sync_queue : markSyncFailed(syncId)
  \/ advance(1000)

SyncSpec == Init /\ [][NextSync]_vars

(***************************************************************************)
(* Properties                                                              *)
(***************************************************************************)
LineageRows(l) == SelectSeq(deliveries, LAMBDA d : d.lin = l)

\* attempts of webhook w held by the queue or by the drain loop
QueuedFor(q, infl, w) ==
  Len(SelectSeq(q, LAMBDA it : it.webhook.id = w))
    + Cardinality({s \in infl : s.origin = "drain" /\ s.item.webhook.id = w})

\* the same, counting only first tries of event e
FirstTriesFor(q, infl, w, e) ==
  Len(SelectSeq(q, LAMBDA it :
        it.webhook.id = w /\ it.eventType = e /\ it.retries = 0))
    + Cardinality({s \in infl : /\ s.origin = "drain"
                                 /\ s.item.webhook.id = w
                                 /\ s.item.eventType = e
                                 /\ s.item.retries = 0})

\* C1: every sendWebhook call whose store writes all succeed adds exactly
\* one row to webhook_deliveries, whatever the outcome of fetch.
C1_OneRowPerSend ==
  [][(lastOp'.op = "sendWebhook" /\ ~lastOp'.faults)
       => Len(deliveries') = Len(deliveries) + 1]_vars

\* C2: retry_count 2, responses 500, 500, 200: the attempt leaves exactly
\* three rows (failure 0, failure 1, success 2) and nothing of it remains
\* queued, in flight or on a timer.
C2_ThreeRecords ==
  LET rows == LineageRows(1)
      got(status, r) == \E i \in 1..Len(rows) :
                           /\ rows[i].response_status = status
                           /\ rows[i].retry_count = r
  IN (/\ Len(pushLog) >= 1
      /\ pushLog[1].retry_count = 2
      /\ got(500, 0) /\ got(500, 1) /\ got(200, 2))
     => /\ Len(rows) = 3
        /\ rows[1].success = 0 /\ rows[1].retry_count = 0
        /\ rows[2].success = 0 /\ rows[2].retry_count = 1
        /\ rows[3].success = 1 /\ rows[3].retry_count = 2
        /\ \A i \in 1..Len(queue) : queue[i].lin # 1
        /\ \A s \in inflight \cup timers : s.item.lin # 1

\* C3: the rows of an attempt pushed by trigger never carry a retry_count
\* above the retry_count snapshotted at enqueue, and a failure row at that
\* maximum is the last row of the attempt: nothing of the attempt is queued,
\* in flight or on a timer, and no row follows it.
C3_ExhaustedIsFinal ==
  \A l \in 1..Len(pushLog) :
    LET rows == LineageRows(l)
    IN \A i \in 1..Len(rows) :
         /\ rows[i].retry_count <= pushLog[l].retry_count
         /\ (rows[i].success = 0
               /\ rows[i].retry_count = pushLog[l].retry_count)
            => /\ i = Len(rows)
               /\ \A k \in 1..Len(queue) : queue[k].lin # l
               /\ \A s \in inflight \cup timers : s.item.lin # l

\* C4: when a logWebhookDelivery call throws, the retry decision is still
\* carried out (a failed send below the maximum gets its timer, a successful
\* send gets none) and the drain loop goes on: either it is sending the next
\* attempt or processing is false again.
C4_StoreFaultTolerated ==
  [][(lastOp'.op = "sendWebhook" /\ lastOp'.faults)
       => LET s == lastOp'.send
              timer == RetryTimer(s)
          IN /\ (lastOp'.outcome # "ok" /\ RetryCondition(s.item))
                  => timer \in timers'
             /\ lastOp'.outcome = "ok" => timers' = timers
             /\ s.origin = "drain"
                  => \/ ~processing'
                     \/ \E d \in inflight' : d.origin = "drain"]_vars

\* an attempt has reached a terminal outcome: a success row, or a failure
\* row at the retry_count snapshotted at enqueue
Terminal(l) ==
  \E i \in 1..Len(deliveries) :
    /\ deliveries[i].lin = l
    /\ \/ deliveries[i].success = 1
       \/ deliveries[i].retry_count = pushLog[l].retry_count

\* C5: every attempt pushed by trigger after init has run eventually
\* reaches a terminal outcome.
C5_EventuallyTerminal ==
  \A l \in 1..(MaxOps * MaxOps) :
    (l <= Len(pushLog) /\ pushLog[l].ticking) ~> Terminal(l)

\* C6: at most one sendWebhook call is in flight.
C6_OneInFlight == Cardinality(inflight) <= 1

\* C6 (amended): at most one sendWebhook call made by the drain loop is in
\* flight; calls made by test and retryDelivery run beside it.
C6_OneDrainSendInFlight ==
  Cardinality({s \in inflight : s.origin = "drain"}) <= 1

C6_Witness ==
  /\ \E s \in inflight : s.origin = "drain"
  /\ \E s \in inflight : s.origin # "drain"

\* C7: the send made by test schedules no retry timer and pushes nothing
\* onto the queue, also when it fails.
C7_TestSchedulesNothing ==
  [][(lastOp'.op = "sendWebhook" /\ lastOp'.send.origin = "test")
       => (timers' = timers /\ queue' = queue)]_vars

\* C8: the send made by retryDelivery is one-shot: it schedules no retry
\* timer and pushes nothing onto the queue.
C8_RetryDeliveryOneShot ==
  [][(lastOp'.op = "sendWebhook" /\ lastOp'.send.origin = "retry")
       => (timers' = timers /\ queue' = queue)]_vars

\* C9: a page reload after run returned finds every write: the tables
\* loaded from IndexedDB are the tables as they were in memory.
C9_ReloadSeesWrites ==
  [][lastOp'.op = "reload"
       => (webhooks' = webhooks /\ deliveries' = deliveries)]_vars

\* C10: trigger(eventType, payload) adds, for every webhook, exactly one
\* first try of eventType if the webhook is active and its events contain
\* eventType or '*', and nothing otherwise.
C10_FanOut ==
  [][lastOp'.op = "trigger"
       => \A w \in 1..Len(webhooks) :
            LET e == lastOp'.eventType
                expected ==
                  IF /\ webhooks[w].active = 1
                     /\ (e \in webhooks[w].events \/ "*" \in webhooks[w].events)
                    THEN 1 ELSE 0
            IN /\ QueuedFor(queue', inflight', w)
                    = QueuedFor(queue, inflight, w) + expected
               /\ FirstTriesFor(queue', inflight', w, e)
                    = FirstTriesFor(queue, inflight, w, e) + expected]_vars

\* a trigger of an event that one webhook receives through '*' and another
\* webhook, subscribed to a different event, does not receive
C10_Witness ==
  /\ lastOp.op = "trigger"
  /\ lastOp.eventType = "order.created"
  /\ Len(pushLog) = 1
  /\ \E w \in 1..Len(webhooks) :
       webhooks[w].active = 1 /\ webhooks[w].events = {"user.registered"}

IsPrefix(a, b) == Len(a) <= Len(b) /\ SubSeq(b, 1, Len(a)) = a

\* the sendWebhook calls the drain loop makes in a step
Started(infl, infl2) == {s \in infl2 \ infl : s.origin = "drain"}

\* C11: the queue is first in, first out.  A step removes at most the front
\* attempt and leaves the others in their order, new attempts and retried
\* attempts being appended behind them; the send the drain loop starts is
\* the send of the front attempt (of the first attempt pushed, when the
\* queue was empty).
C11_Fifo ==
  [][LET started == Started(inflight, inflight')
     IN /\ Cardinality(started) <= 1
        /\ started = {} => IsPrefix(queue, queue')
        /\ \A s \in started :
             IF Len(queue) > 0
               THEN s.item = Head(queue) /\ IsPrefix(Tail(queue), queue')
               ELSE /\ s.item.retries = 0
                    /\ s.item.lin = Len(pushLog) + 1
                    /\ \A k \in 1..Len(queue') :
                         queue'[k].lin = Len(pushLog) + 1 + k]_vars

\* the attempt pushed second is being sent while the retry of the attempt
\* pushed first waits in the queue
C11_Witness ==
  /\ Len(queue) = 1
  /\ queue[1].lin = 1 /\ queue[1].retries = 1
  /\ \E s \in inflight : s.origin = "drain" /\ s.item.lin = 2

\* the attempts pushed by trigger that are queued, in flight or on a timer
LiveItems(q, infl, tm) ==
  {it \in {q[k] : k \in 1..Len(q)} \cup {s.item : s \in infl \cup tm} :
     it.lin > 0}

\* C12: an attempt keeps the webhook row it snapshotted at trigger time
\* while it is queued, in flight or waiting on a timer; update and delete
\* leave the queue, the sends in flight and the retry timers as they are;
\* and a failed send gets its retry by the snapshotted retry_count, whatever
\* the webhooks table says by then.
C12_Snapshot ==
  [][/\ \A it \in LiveItems(queue', inflight', timers') :
          it.webhook = pushLog'[it.lin].webhook
     /\ lastOp'.op \in {"update", "delete"}
          => /\ queue' = queue /\ inflight' = inflight
             /\ timers' = timers /\ processing' = processing
     /\ (/\ lastOp'.op = "sendWebhook"
         /\ lastOp'.send.item.lin > 0
         /\ lastOp'.outcome # "ok"
         /\ ~lastOp'.faults)
          => LET s == lastOp'.send
             IN RetryTimer(s) \in timers'
                  <=> s.item.retries < pushLog[s.item.lin].retry_count]_vars

\* a retry was scheduled for an attempt whose webhook row has been updated
\* or deleted since the trigger
C12_Witness ==
  /\ lastOp.op = "sendWebhook"
  /\ \E t \in timers :
       /\ t.item.lin > 0
       /\ t.sid = lastOp.send.sid
       /\ webhooks[t.item.webhook.id] # t.item.webhook

\* C13: the rows of an attempt pushed by trigger carry the retry counts
\* 0, 1, 2, ... in creation order, without gap or repetition.
C13_RetryCountsInOrder ==
  \A l \in 1..Len(pushLog) :
    LET rows == LineageRows(l)
    IN \A i \in 1..Len(rows) : rows[i].retry_count = i - 1

\* retryDelay * 2^r is a timeout setTimeout can hold
Fits(r) == 2 ^ r <= 2147483647 \div retryDelay

\* C14: an attempt re-inserted with counter k, after the failure of the send
\* made with counter k - 1, has waited at least retryDelay * 2^(k-1) ms,
\* and longer than the retry before it.
C14_Backoff ==
  \A t \in timers :
    LET r == t.item.retries - 1
    IN /\ Fits(r)
       /\ t.delay >= retryDelay * 2 ^ r
       /\ r > 0 => t.delay > setTimeout(retryDelay, r - 1)

\* the rows a step adds to webhook_deliveries
Added(d, d2) == SubSeq(d2, Len(d) + 1, Len(d2))

\* C15: a send answered with a 2xx status is recorded with success = 1 only
\* and gets no retry; a send that ends in a non-2xx status, a transport
\* error or a timeout is recorded with success = 0 only and gets a retry
\* exactly when its counter is below retry_count.
C15_OutcomeClasses ==
  [][lastOp'.op = "sendWebhook"
       => LET s == lastOp'.send
              added == Added(deliveries, deliveries')
          IN IF lastOp'.outcome = "ok"
               THEN /\ \A i \in 1..Len(added) : added[i].success = 1
                    /\ ~lastOp'.faults => Len(added) >= 1
                    /\ timers' = timers
               ELSE /\ \A i \in 1..Len(added) : added[i].success = 0
                    /\ ~lastOp'.faults => Len(added) >= 1
                    /\ RetryTimer(s) \in timers' <=> RetryCondition(s.item)
                    /\ timers \subseteq timers']_vars

\* the sends suspended at fetch
Requests == {s \in inflight : s.phase = "fetch"}

\* C16: the X-Webhook-Signature of a request of a webhook with a secret is
\* the HMAC, under that secret, of the body of the same request.
C16_SignatureOfBody ==
  \A s \in Requests :
    HasSecret(s.item.webhook)
      => s.headers["X-Webhook-Signature"]
           = Hmac(s.body, s.item.webhook.secret)

\* C17: the request carries the configured headers over the default
\* Content-Type, X-Event-Type is the event name, and X-Webhook-Signature
\* is there exactly when the webhook has a non-empty secret.
C17_RequestHeaders ==
  \A s \in Requests :
    LET configured == s.item.webhook.headers
    IN /\ "Content-Type" \in DOMAIN s.headers
       /\ s.headers["Content-Type"]
            = IF "Content-Type" \in DOMAIN configured
                THEN configured["Content-Type"] ELSE "application/json"
       /\ \A k \in DOMAIN configured
                   \ {"X-Event-Type", "X-Webhook-Signature"} :
            k \in DOMAIN s.headers /\ s.headers[k] = configured[k]
       /\ "X-Event-Type" \in DOMAIN s.headers
       /\ s.headers["X-Event-Type"] = s.item.eventType
       /\ "X-Webhook-Signature" \in DOMAIN s.headers
            <=> s.item.webhook.secret \notin {Null, ""}

C19_NoOverlap ==
  [][/\ (\E s \in inflight' : s.origin = "drain") => processing'
     /\ (processing /\ lastOp'.op \in {"trigger", "tick"})
          => /\ IsPrefix(queue, queue')
             /\ Started(inflight, inflight') = {}
     /\ lastOp'.op = "tick"
          => /\ ~processing /\ Len(queue) > 0
             /\ Started(inflight, inflight') # {}]_vars

\* a trigger made while a pass is sending has only queued its attempt
C19_Witness ==
  /\ lastOp.op = "trigger"
  /\ processing
  /\ Len(queue) > 0
  /\ queue[Len(queue)].lin = Len(pushLog)
  /\ \E s \in inflight : s.origin = "drain" /\ s.item.lin < Len(pushLog)

\* C20: webhook_deliveries only grows: every step leaves the rows there are
\* as they are, and the send of retryDelivery, of a successful record too,
\* adds a row of its own unless the store throws.
C20_AppendOnly ==
  [][/\ IsPrefix(deliveries, deliveries')
     /\ (/\ lastOp'.op = "sendWebhook"
         /\ lastOp'.send.origin = "retry"
         /\ ~lastOp'.faults)
          => Len(deliveries') > Len(deliveries)]_vars

\* the record of a successful send has been redelivered: the table holds
\* it unchanged, followed by the record of the redelivery
C20_Witness ==
  /\ lastOp.op = "sendWebhook"
  /\ lastOp.send.origin = "retry"
  /\ Len(deliveries) = 2
  /\ deliveries[1].success = 1 /\ deliveries[1].lin = 1
  /\ deliveries[2].lin = 0

\* a registration without a url fetch accepts
Malformed(webhookData) ==
  "url" \notin DOMAIN webhookData \/ ~ValidUrl(webhookData.url)

\* C21: register of a malformed webhook throws and stores no row, and no
\* attempt is ever queued, in flight or on a timer for a malformed webhook.
C21_MalformedRejected ==
  [][/\ (lastOp'.op = "register" /\ Malformed(lastOp'.webhookData))
          => lastOp'.threw /\ webhooks' = webhooks
     /\ \A it \in LiveItems(queue', inflight', timers') :
          ValidUrl(it.webhook.url)]_vars

\* the delivery records of webhook w (of all webhooks for w = 0) that have
\* success = v
Records(w, v) ==
  {i \in 1..Len(deliveries) :
     /\ w = 0 \/ deliveries[i].webhook_id = w
     /\ deliveries[i].success = v}

\* C22: getStatistics(w) counts the delivery records of webhook w, and
\* getStatistics() all of them: successful those with success = 1, failed
\* those with success = 0, total both; successRate is 0 when total is 0.
C22_Statistics ==
  \A w \in 0..(Len(webhooks) + 1) :
    LET stats == getStatistics(w)
    IN /\ stats.successful = Cardinality(Records(w, 1))
       /\ stats.failed = Cardinality(Records(w, 0))
       /\ stats.total = Cardinality(Records(w, 0) \cup Records(w, 1))
       /\ stats.total = stats.successful + stats.failed
       /\ stats.total = 0 => stats.successRate = <<0, 1>>

\* one webhook has a successful record, another a failed one
C22_Witness ==
  /\ Records(1, 1) # {} /\ Records(1, 0) = {}
  /\ Records(2, 0) # {} /\ Records(2, 1) = {}

\* C23: after settings.set(category, key, v), every settings.get of that
\* key returns v until the next set or delete of it, whether the cache or
\* the database answers
C23_GetReturnsLastSet ==
  [][(lastOp'.op = "settings.get" /\ lastSet # <<>>)
       => lastOp'.result = lastSet[1]]_vars

\* Date.parse of a timestamp text written by toISOString
ParseISO(text) == text.day * MsPerDay + text.ms

\* C24: on a database freshly created from schema.sql,
\* auth.login('admin', 'admin123') succeeds: it returns the seeded admin
\* user and a session token, and isAuthenticated() is true afterwards
C24_SeedLoginSucceeds ==
  [][(/\ lastOp'.op = "login"
      /\ lastOp'.username = "admin"
      /\ lastOp'.password = "admin123")
       => /\ lastOp'.result = "fulfilled"
          /\ lastOp'.user = sanitizeUser(SeedUsers[1])
          /\ lastOp'.sessionToken \in 1..Len(sessions')
          /\ isAuthenticated(currentUser', currentSession')]_vars

Expired(session, t) == t > ParseISO(session.expiry_date)

\* C28: a session created by login is valid only until its expiry_date,
\* the creation time plus 24 hours: at any later time getSession returns
\* null for it, restoreSession returns false, and the next periodic
\* session check logs the user out and emits session-expired
C28_ExpiredSessionInvalid ==
  [][/\ \A i \in DOMAIN sessions' :
          Expired(sessions'[i], now')
            => getSession(sessions', i, now') = <<>>
     /\ (/\ lastOp'.op = "restoreSession"
         /\ Expired(sessions[lastOp'.sessionToken], now))
          => lastOp'.result = FALSE
     /\ (/\ lastOp'.op = "sessionCheck"
         /\ currentSession # <<>>
         /\ Expired(sessions[currentSession[1].id], now))
          => /\ ~isAuthenticated(currentUser', currentSession')
             /\ lastOp'.events = <<"logout", "session-expired">>]_vars

\* C29: after logout(), isAuthenticated() is false, the session token is
\* gone from localStorage, the session that was current is inactive in the
\* database, and restoreSession with its token returns false from then on
C29_LogoutInvalidates ==
  [][/\ (\/ lastOp'.op = "logout"
         \/ lastOp'.op = "sessionCheck" /\ lastOp'.events # <<>>)
          => /\ ~isAuthenticated(currentUser', currentSession')
             /\ localStorage' = <<>>
             /\ currentSession # <<>>
                  => /\ sessions'[currentSession[1].id].active = 0
                     /\ getSession(sessions', currentSession[1].id,
                                   now') = <<>>
     /\ \A i \in DOMAIN sessions :
          sessions[i].active = 0 => sessions'[i].active = 0
     /\ (/\ lastOp'.op = "restoreSession"
         /\ sessions[lastOp'.sessionToken].active = 0)
          => lastOp'.result = FALSE]_vars
C29_Witness ==
  /\ lastOp.op = "restoreSession"
  /\ lastOp.result = FALSE
  /\ sessions[lastOp.sessionToken].active = 0
  /\ ~Expired(sessions[lastOp.sessionToken], now)

\* the requests of key that passed checkRateLimit less than 60 s before t
InWindow(passed, key, t) ==
  {i \in DOMAIN passed :
     passed[i].key = key /\ t - passed[i].time < windowMs}
Unauthenticated(key) ==
  /\ handlers[key].auth_required
  /\ ~isAuthenticated(currentUser, currentSession)
Limited(key) ==
  Cardinality(InWindow(admitted, key, now)) >= handlers[key].rate_limit
\* the first middleware that does not return undefined returns what
FirstMiddleware(what) ==
  \E i \in DOMAIN middleware :
    /\ middleware[i] = what
    /\ \A j \in 1..(i - 1) : middleware[j] = "next"
Invalid(key, request) ==
  /\ handlers[key].request_schema # <<>>
  /\ request.body # <<>>
  /\ \E field \in handlers[key].request_schema[1].required :
       field \notin request.body[1]

\* C25: endpoints are identified by METHOD:route: registering a handler
\* for a method and a route that have no endpoint yet succeeds, also when
\* another method has an endpoint for that route, and leaves the other
\* endpoints as they were, each reachable through handle
C25_MethodAndRouteIdentify ==
  [][(/\ lastOp'.op = "api.register"
      /\ lastOp'.key \notin DOMAIN handlers
      /\ \A i \in DOMAIN api_endpoints :
           <<api_endpoints[i].method, api_endpoints[i].route>>
             # lastOp'.key)
       => /\ ~lastOp'.threw
          /\ lastOp'.key \in DOMAIN handlers'
          /\ \A k \in DOMAIN handlers :
               k \in DOMAIN handlers' /\ handlers'[k] = handlers[k]]_vars

\* C26: handle invokes the handler only if all checks pass and checks in
\* this order, returning at the first failure: 404 unknown endpoint, 401
\* not authenticated, 429 rate limit exceeded, 403 a middleware returned
\* false, 400 body violates the request schema; handle never throws, an
\* exception from a middleware or the handler yields a 500 response
C26_ChecksInOrder ==
  [][lastOp'.op = "api.handle" =>
       LET key == lastOp'.key
           request == lastOp'.request
           status == lastOp'.status
           known == key \in DOMAIN handlers
           authed == known /\ ~Unauthenticated(key)
           within == authed /\ ~Limited(key)
           passed == within /\ \A i \in DOMAIN middleware :
                                 middleware[i] = "next"
           valid == passed /\ ~Invalid(key, request)
       IN /\ ~lastOp'.threw
          /\ ~known => status = 404
          /\ (known /\ ~authed) => status = 401
          /\ (authed /\ ~within) => status = 429
          /\ (within /\ FirstMiddleware("false")) => status = 403
          /\ (within /\ FirstMiddleware("throws")) => status = 500
          /\ (passed /\ ~valid) => status = 400
          /\ lastOp'.invoked => valid
          /\ (valid /\ handlers[key].handler \in {"throws", "rejects"})
               => status = 500
          /\ (valid /\ handlers[key].handler = "ok")
               => status = 200 /\ lastOp'.invoked]_vars

\* C27: for each endpoint key, handle admits at most rate_limit requests
\* within any window of 60 seconds; a request answered with 404, 401 or
\* 429 consumes no quota, and a request admitted 60 seconds ago or earlier
\* no longer counts
C27_RateLimit ==
  [][lastOp'.op = "api.handle" =>
       LET key == lastOp'.key
       IN /\ lastOp'.status \in {404, 401, 429}
               => /\ admitted' = admitted
                  /\ \A k \in DOMAIN rateLimits :
                       rateLimits'[k] = rateLimits[k]
                  /\ \A k \in (DOMAIN rateLimits') \ DOMAIN rateLimits :
                       rateLimits'[k] = <<>>
          /\ (key \in DOMAIN handlers /\ ~Unauthenticated(key))
               => /\ lastOp'.status = 429 <=> Limited(key)
                  /\ Cardinality(InWindow(admitted', key, now))
                       <= IF handlers[key].rate_limit > 0
                            THEN handlers[key].rate_limit ELSE 0]_vars
C27_Witness ==
  /\ lastOp.op = "api.handle"
  /\ lastOp.status = 200
  /\ lastOp.key \in DOMAIN handlers
  /\ \E i \in DOMAIN admitted :
       /\ admitted[i].key = lastOp.key
       /\ now - admitted[i].time >= windowMs
  /\ Cardinality({i \in DOMAIN admitted : admitted[i].key = lastOp.key})
       > handlers[lastOp.key].rate_limit

\* C30: whenReady() resolves at once when init has completed, otherwise
\* when a running or later init completes, and never while isReady() is
\* false, that is before every plugin init step has finished
C30_WhenReady ==
  [][/\ resolved' # resolved
          => /\ initialized'
             /\ lastOp'.op \in {"whenReady", "pwa.init"}
             /\ lastOp'.ready
     /\ lastOp'.op = "whenReady"
          => IF initialized
               THEN resolved' = resolved + 1 /\ waiters' = waiters
               ELSE resolved' = resolved /\ waiters' = waiters + 1
     /\ (lastOp'.op = "pwa.init" /\ lastOp'.result = "fulfilled")
          => /\ waiters' = 0
             /\ resolved' = resolved + waiters
             /\ initialized'
             /\ ~initialized
                  => lastOp'.steps =
                       {"database", "logging", "auth", "pages", "webhooks",
                        "api"} \cup (IF lastOp'.options.enableMetrics
                                       THEN {"metrics"} ELSE {})
     /\ initialized' => waiters' = 0]_vars
C30_Witness ==
  /\ lastOp.op = "pwa.init"
  /\ lastOp.result = "fulfilled"
  /\ resolved = MaxWaiters
  /\ nOps = MaxOps

\* C31: after changePassword(oldPassword, newPassword) succeeds, the
\* current password of the account is newPassword: a following
\* changePassword that supplies newPassword as the current password is
\* accepted, one that supplies the former password is rejected with
\* 'Invalid current password'
C31_NewPasswordIsCurrent ==
  [][(/\ lastOp.op = "changePassword"
      /\ lastOp.threw = ""
      /\ lastOp'.op = "changePassword")
       => /\ lastOp'.oldPassword = lastOp.newPassword
               => lastOp'.threw = ""
          /\ (/\ lastOp'.oldPassword = lastOp.oldPassword
              /\ lastOp.oldPassword # lastOp.newPassword)
               => lastOp'.threw = "Invalid current password"]_vars

\* C32: with the console captured and console output enabled, a call of
\* console.info, console.warn or console.error at or above the current
\* level returns and adds exactly one entry to the log: one memory entry,
\* one row of logs and one log-entry event.
C32_ConsoleCallLogsOnce ==
  [][(/\ lastOp'.op = "console"
      /\ lastOp'.method \in {"info", "warn", "error"}
      /\ captures = 1
      /\ consoleEnabled
      /\ dbEnabled
      /\ logLevels[lastOp'.method] >= logLevels[currentLevel])
       => /\ lastOp'.threw = ""
          /\ Len(memoryLogs') = Len(memoryLogs) + 1
          /\ Len(logs') = Len(logs) + 1
          /\ logEvents' = logEvents + 1]_vars

\* C33: after unpublishPage(route), and until publishPage(route) or a
\* savePage with published = 1 for that route, getPage(route) returns null
\* and renderPage(route) and handleRoute(route) return the not-found page.
C33_UnpublishedNotServed ==
  [][(/\ lastOp'.op \in {"getPage", "renderPage", "handleRoute"}
      /\ lastOp'.route \in unpublished)
       => /\ lastOp'.threw = ""
          /\ lastOp'.result = IF lastOp'.op = "getPage" THEN <<>>
                              ELSE <<"notFound">>]_vars

\* C34: when shutdown() has completed, no periodic timer the components
\* started is running: the auth session check is stopped and no webhook
\* queue tick is left, however many times init ran before.
C34_ShutdownStopsTimers ==
  [][lastOp'.op = "shutdown"
       => /\ ~sessionCheckInterval'
          /\ intervals' = 0]_vars

\* C35: getPendingSyncItems returns a row exactly when its status is
\* pending or failed and markSyncFailed was applied to it fewer than 5
\* times (the limit permitting), in order of priority then creation date;
\* a row markSyncCompleted was applied to is never returned again, nor is
\* a row that failed 5 times.
C35_PendingSyncItems ==
  [][lastOp'.op = "getPendingSyncItems"
       => LET result == lastOp'.result
              returned == {result[i] : i \in DOMAIN result}
              due == {id \in DOMAIN sync_queue :
                        /\ sync_queue[id].status \in {"pending", "failed"}
                        /\ syncHistory[id].failed < 5}
          IN  /\ returned \subseteq due
              /\ Len(result) = IF Cardinality(due) < lastOp'.limit
                               THEN Cardinality(due) ELSE lastOp'.limit
              /\ \A i, j \in DOMAIN result :
                   i < j => ~SortsAfter(sync_queue[result[i]],
                                        sync_queue[result[j]])
              /\ \A id \in returned :
                   /\ ~syncHistory[id].completed
                   /\ syncHistory[id].failed < 5]_vars

====
